---- MODULE Spec2Model ----
(***************************************************************************)
(* Tenant-scoped finance controllers (Account, Liability, Balance) and the *)
(* invitation controller of the backend, over the Prisma tables they read  *)
(* and write.                                                              *)
(*                                                                         *)
(*   Spec     the finance controllers; one action per HTTP handler.        *)
(*   SpecInv  the invitation controller; every handler is a process that   *)
(*            takes one step per awaited storage call, so that handlers    *)
(*            interleave at their await points.                            *)
(*   SpecSteps  update and delete of Accounts and Liabilities as processes *)
(*            of two steps, the verifying read and the write by id.        *)
(***************************************************************************)
EXTENDS Integers, FiniteSets, Sequences, TLC

\* ------------------------------------------------------------------ bounds
MaxInstruments == 2   \* Account and Liability rows ever created
MaxBalances == 2      \* Balance rows ever created
MaxBatch == 2         \* entries of one bulk request
MaxTokens == 2        \* invitation tokens ever generated
MaxInvitations == 2   \* Invitation rows ever created
MaxNow == 14          \* the clock stops here

\* --------------------------------------------------------------- constants
NULL == -1

Orgs == {"orgA", "orgB", "orgD"}
Users == {"alice", "mike", "vic", "bob", "dan", "carol", "kara"}
NoUser == "none"
NoOrg == "none"
NoRole == "none"

Amounts == {100, 200}
Dates == {1}

VARIABLES
  organizations,    \* Organization table: id -> [deletedAt]
  members,          \* OrganizationMember table: set of rows
  accounts,         \* Account table: set of rows
  liabilities,      \* Liability table: set of rows
  balances,         \* Balance table: set of rows
  nextAccountId,    \* ids handed out by the store (cuid): never reused
  nextLiabilityId,
  nextBalanceId,
  now,              \* the wall clock (new Date()), in days
  invitations,      \* Invitation table: set of rows
  nextInvitationId,
  nextMemberId,
  nextToken,        \* the next value randomBytes(32) yields: never repeated
  outbox,           \* the emails handed to the mail transport
  proc              \* the invitation requests in flight: process -> frame

invVars == <<invitations, nextInvitationId, nextMemberId, nextToken, outbox,
             proc>>

vars == <<organizations, members, accounts, liabilities, balances,
          nextAccountId, nextLiabilityId, nextBalanceId, now, invVars>>

\* ------------------------------------------------------------- directory

\* The lookup without its condition on the organization.
ActiveMembershipsDeletedToo(userId) ==
  {m \in members : m.userId = userId}

\* prisma.organizationMember.findFirst({where: {userId, organization:
\* {deletedAt: null}}}): the candidate rows; findFirst has no orderBy, so any
\* of them may be the one returned.
ActiveMemberships(userId) ==
  {m \in members : m.userId = userId
                   /\ organizations[m.organizationId].deletedAt = NULL}

\* The result of the failed lookup: getOrganizationMembership throws
\* NO_ORGANIZATION and every handler answers 403 'No organization membership'.
NoMembership ==
  [id |-> NULL, organizationId |-> NoOrg, userId |-> NoUser, role |-> NoRole,
   invitedBy |-> NoUser, invitedAt |-> NULL, acceptedAt |-> NULL]

\* What getOrganizationMembership(userId) can hand to the handler.
getOrganizationMembership(userId) ==
  IF ActiveMemberships(userId) = {} THEN {NoMembership}
  ELSE ActiveMemberships(userId)

\* A handler's response: the HTTP status, the error it names, the rows of
\* its body.
Response(status, error, data) ==
  [status |-> status, error |-> error, data |-> data]

NoOrganizationResponse == Response(403, "NO_ORGANIZATION", {})

\* -------------------------------------------------- instrument handlers
\* AccountController and LiabilityController are the same code over two
\* tables.  Each handler is an operator from the resolved membership, the
\* caller, the request and the table to the response and the table it leaves;
\* the handler's action applies it.

\* The lookup by id alone, without the organizationId condition.
FindFirstAnyOrganization(table, id, organizationId) ==
  {r \in table : r.id = id /\ r.deletedAt = NULL}

\* The lookup without its deletedAt condition.
FindFirstDeletedToo(table, id, organizationId) ==
  {r \in table : r.id = id /\ r.organizationId = organizationId}

\* prisma.<table>.findFirst({where: {id, organizationId, deletedAt: null}})
FindFirst(table, id, organizationId) ==
  {r \in table : r.id = id /\ r.organizationId = organizationId
                 /\ r.deletedAt = NULL}

\* createAccountSchema / updateAccountSchema: name is z.string().min(1)
ValidName(name) == name # ""

\* The validated body of PATCH: each field is optional ("keep": absent).
Patches ==
  {[name |-> "", isActive |-> "keep"],
   [name |-> "keep", isActive |-> "true"],
   [name |-> "keep", isActive |-> "false"]}

\* prisma.<table>.update({where: {id}, data: validated}).  Of the patched
\* columns the rows keep isActive, the one column a handler reads back; name,
\* type, institution and accountNumber are written the same way and read by
\* no handler.
ApplyPatch(row, patch) ==
  [row EXCEPT !.isActive = CASE patch.isActive = "true" -> TRUE
                             [] patch.isActive = "false" -> FALSE
                             [] OTHER -> @]

\* data: {isActive: false, deletedAt: new Date(), deletedBy: userId}
SoftDeleted(row, userId) ==
  [row EXCEPT !.isActive = FALSE, !.deletedAt = now, !.deletedBy = userId]

\* The list filter with includeInactive lifting the deletedAt condition too.
ListWhereInactiveDeleted(table, organizationId, includeInactive) ==
  {r \in table : /\ r.organizationId = organizationId
                 /\ (includeInactive \/ (r.deletedAt = NULL /\ r.isActive))}

\* The list filter without its organizationId condition.
ListWhereAnyOrganization(table, organizationId, includeInactive) ==
  {r \in table : r.deletedAt = NULL /\ (includeInactive \/ r.isActive)}

\* where: {organizationId, deletedAt: null, ...(includeInactive ? {} :
\* {isActive: true})}
ListWhere(table, organizationId, includeInactive) ==
  {r \in table : /\ r.organizationId = organizationId
                 /\ r.deletedAt = NULL
                 /\ (includeInactive \/ r.isActive)}

ListResult(m, table, includeInactive) ==
  IF m = NoMembership THEN NoOrganizationResponse
  ELSE Response(200, "", ListWhere(table, m.organizationId, includeInactive))

GetResult(m, table, id) ==
  IF m = NoMembership THEN NoOrganizationResponse
  ELSE IF FindFirst(table, id, m.organizationId) = {}
       THEN Response(404, "NOT_FOUND", {})
       ELSE Response(200, "", FindFirst(table, id, m.organizationId))

\* createAccountSchema.parse(req.body): a z.object keeps its declared keys
\* and strips every other key of the body.
Validated(body) == [name |-> body.name]

\* The row built from the raw body spread over the stamps.
NewRowPayloadWins(id, m, userId, body) ==
  [id |-> id,
   organizationId |-> IF body.organizationId # NoOrg
                      THEN body.organizationId ELSE m.organizationId,
   createdBy |-> IF body.createdBy # NoUser THEN body.createdBy ELSE userId,
   isActive |-> TRUE, deletedAt |-> NULL, deletedBy |-> NoUser]

\* {...first, ...second}: a key of both takes the value of the second.
Spread(first, second) ==
  [k \in DOMAIN first \cup DOMAIN second |->
     IF k \in DOMAIN second THEN second[k] ELSE first[k]]

\* data: {...validated, organizationId: membership.organizationId,
\* createdBy: userId}.  Of the columns the row keeps those a handler reads
\* back.
NewRow(id, m, userId, body) ==
  LET data == Spread(Validated(body),
                     [organizationId |-> m.organizationId,
                      createdBy |-> userId])
  IN [id |-> id, organizationId |-> data.organizationId,
      createdBy |-> data.createdBy, isActive |-> TRUE, deletedAt |-> NULL,
      deletedBy |-> NoUser]

\* Check permission: MEMBER or higher can create / edit
CanCreate(role) == role # "VIEWER"
CanEdit(role) == role # "VIEWER"
\* The delete check with the MEMBER case left out.
CanDeleteExceptViewer(role) == ~(role = "VIEWER")

\* Check permission: ADMIN or higher can delete
CanDelete(role) == ~(role = "VIEWER" \/ role = "MEMBER")

Unchanged(table, response) == [resp |-> response, table |-> table]

CreateResult(m, userId, table, nextId, body) ==
  IF m = NoMembership THEN Unchanged(table, NoOrganizationResponse)
  ELSE IF ~CanCreate(m.role)
       THEN Unchanged(table, Response(403, "FORBIDDEN", {}))
  ELSE IF ~ValidName(body.name)
       THEN Unchanged(table, Response(400, "VALIDATION", {}))
  ELSE [resp |-> Response(201, "", {NewRow(nextId, m, userId, body)}),
        table |-> table \cup {NewRow(nextId, m, userId, body)}]

UpdateResult(m, userId, table, id, patch) ==
  IF m = NoMembership THEN Unchanged(table, NoOrganizationResponse)
  ELSE IF ~CanEdit(m.role)
       THEN Unchanged(table, Response(403, "FORBIDDEN", {}))
  ELSE IF ~ValidName(patch.name)
       THEN Unchanged(table, Response(400, "VALIDATION", {}))
  ELSE IF FindFirst(table, id, m.organizationId) = {}
       THEN Unchanged(table, Response(404, "NOT_FOUND", {}))
  ELSE LET old == CHOOSE r \in table : r.id = id IN
       [resp |-> Response(200, "", {ApplyPatch(old, patch)}),
        table |-> (table \ {old}) \cup {ApplyPatch(old, patch)}]

\* hard: the row is removed; otherwise it is stamped and kept.
DeleteResult(m, userId, table, id, hardDelete) ==
  IF m = NoMembership THEN Unchanged(table, NoOrganizationResponse)
  ELSE IF ~CanDelete(m.role)
       THEN Unchanged(table, Response(403, "FORBIDDEN", {}))
  ELSE IF FindFirst(table, id, m.organizationId) = {}
       THEN Unchanged(table, Response(404, "NOT_FOUND", {}))
  ELSE LET old == CHOOSE r \in table : r.id = id IN
       [resp |-> Response(204, "", {}),
        table |-> IF hardDelete THEN table \ {old}
                  ELSE (table \ {old}) \cup {SoftDeleted(old, userId)}]

\* ----------------------------------------------------- AccountController

InstrumentsCreated == (nextAccountId - 1) + (nextLiabilityId - 1)

AccountList(userId, includeInactive) ==
  /\ \E m \in getOrganizationMembership(userId) :
       ListResult(m, accounts, includeInactive).status \in {200, 403}
  /\ UNCHANGED vars

AccountGet(userId, id) ==
  /\ \E m \in getOrganizationMembership(userId) :
       GetResult(m, accounts, id).status \in {200, 403, 404}
  /\ UNCHANGED vars

AccountCreate(userId, body) ==
  /\ InstrumentsCreated < MaxInstruments
  /\ \E m \in getOrganizationMembership(userId) :
       LET r == CreateResult(m, userId, accounts, nextAccountId, body) IN
       /\ accounts' = r.table
       /\ nextAccountId' = IF r.resp.status = 201 THEN nextAccountId + 1
                           ELSE nextAccountId
  /\ UNCHANGED <<liabilities, balances, nextLiabilityId, nextBalanceId, now,
                 organizations, members,
                 invVars>>

AccountUpdate(userId, id, patch) ==
  /\ \E m \in getOrganizationMembership(userId) :
       accounts' = UpdateResult(m, userId, accounts, id, patch).table
  /\ UNCHANGED <<liabilities, balances, nextAccountId, nextLiabilityId,
                 nextBalanceId, now, organizations, members,
                 invVars>>

\* Balance_accountId_fkey: ON DELETE CASCADE
AccountDelete(userId, id, hardDelete) ==
  /\ \E m \in getOrganizationMembership(userId) :
       /\ accounts' = DeleteResult(m, userId, accounts, id, hardDelete).table
       /\ balances' = {b \in balances :
                         b.accountId = NULL
                         \/ \E a \in accounts' : a.id = b.accountId}
  /\ UNCHANGED <<liabilities, nextAccountId, nextLiabilityId, nextBalanceId,
                 now, organizations, members,
                 invVars>>

\* --------------------------------------------------- LiabilityController

LiabilityList(userId, includeInactive) ==
  /\ \E m \in getOrganizationMembership(userId) :
       ListResult(m, liabilities, includeInactive).status \in {200, 403}
  /\ UNCHANGED vars

LiabilityGet(userId, id) ==
  /\ \E m \in getOrganizationMembership(userId) :
       GetResult(m, liabilities, id).status \in {200, 403, 404}
  /\ UNCHANGED vars

LiabilityCreate(userId, body) ==
  /\ InstrumentsCreated < MaxInstruments
  /\ \E m \in getOrganizationMembership(userId) :
       LET r == CreateResult(m, userId, liabilities, nextLiabilityId, body) IN
       /\ liabilities' = r.table
       /\ nextLiabilityId' = IF r.resp.status = 201 THEN nextLiabilityId + 1
                             ELSE nextLiabilityId
  /\ UNCHANGED <<accounts, balances, nextAccountId, nextBalanceId, now,
                 organizations, members,
                 invVars>>

LiabilityUpdate(userId, id, patch) ==
  /\ \E m \in getOrganizationMembership(userId) :
       liabilities' = UpdateResult(m, userId, liabilities, id, patch).table
  /\ UNCHANGED <<accounts, balances, nextAccountId, nextLiabilityId,
                 nextBalanceId, now, organizations, members,
                 invVars>>

\* Balance_liabilityId_fkey: ON DELETE CASCADE
LiabilityDelete(userId, id, hardDelete) ==
  /\ \E m \in getOrganizationMembership(userId) :
       /\ liabilities' =
            DeleteResult(m, userId, liabilities, id, hardDelete).table
       /\ balances' = {b \in balances :
                         b.liabilityId = NULL
                         \/ \E l \in liabilities' : l.id = b.liabilityId}
  /\ UNCHANGED <<accounts, nextAccountId, nextLiabilityId, nextBalanceId,
                 now, organizations, members,
                 invVars>>

\* ----------------------------------------------------- BalanceController

\* The Account / Liability a Balance row hangs on (the foreign keys).
AccountOf(b) == CHOOSE a \in accounts : a.id = b.accountId
LiabilityOf(b) == CHOOSE l \in liabilities : l.id = b.liabilityId

\* where: {account: {organizationId, deletedAt: null}}
ViaAccount(b, organizationId) ==
  /\ b.accountId # NULL
  /\ AccountOf(b).organizationId = organizationId
  /\ AccountOf(b).deletedAt = NULL

\* where: {liability: {organizationId, deletedAt: null}}
ViaLiability(b, organizationId) ==
  /\ b.liabilityId # NULL
  /\ LiabilityOf(b).organizationId = organizationId
  /\ LiabilityOf(b).deletedAt = NULL

\* With ?date: the balances of that date; without: the distinct dates.
BalanceListResult(m, date) ==
  IF m = NoMembership THEN NoOrganizationResponse
  ELSE IF date # NULL
       THEN Response(200, "",
              {b \in balances : ViaAccount(b, m.organizationId)
                                /\ b.date = date}
              \cup {b \in balances : ViaLiability(b, m.organizationId)
                                     /\ b.date = date})
       ELSE Response(200, "",
              {b.date : b \in {x \in balances :
                                 \/ ViaAccount(x, m.organizationId)
                                 \/ ViaLiability(x, m.organizationId)}})

\* The refinement without its "but not both" half.
AtLeastOneRef(e) == e.accountId # NULL \/ e.liabilityId # NULL

\* .refine(data => (data.accountId || data.liabilityId) &&
\*                 !(data.accountId && data.liabilityId))
ExactlyOneRef(e) ==
  /\ (e.accountId # NULL \/ e.liabilityId # NULL)
  /\ ~(e.accountId # NULL /\ e.liabilityId # NULL)

\* Balance_accountId_date_key, Balance_liabilityId_date_key: a NULL column
\* never collides.
UniqueViolation(table, accountId, liabilityId, date) ==
  \E b \in table :
    /\ b.date = date
    /\ \/ (accountId # NULL /\ b.accountId = accountId)
       \/ (liabilityId # NULL /\ b.liabilityId = liabilityId)

BalanceRow(id, accountId, liabilityId, amount, date) ==
  [id |-> id, accountId |-> accountId, liabilityId |-> liabilityId,
   amount |-> amount, date |-> date]

\* Check permission: MEMBER or higher can create balances
CanCreateBalance(role) == role # "VIEWER"
\* Check permission: MEMBER or higher can update balances
CanBulkUpdate(role) == role # "VIEWER"
\* Check permission: MEMBER or higher can delete balances
CanDeleteBalance(role) == role # "VIEWER"

Kept(response) ==
  [resp |-> response, balances |-> balances, nextId |-> nextBalanceId]

\* prisma.balance.create: a second row for the same (instrument, date) is
\* refused by the unique index and the error goes to next(error).
BalanceCreateResult(m, userId, e, date) ==
  IF m = NoMembership THEN Kept(NoOrganizationResponse)
  ELSE IF ~CanCreateBalance(m.role)
       THEN Kept(Response(403, "FORBIDDEN", {}))
  ELSE IF ~ExactlyOneRef(e) THEN Kept(Response(400, "VALIDATION", {}))
  ELSE IF e.accountId # NULL
          /\ FindFirst(accounts, e.accountId, m.organizationId) = {}
       THEN Kept(Response(404, "NOT_FOUND", {}))
  ELSE IF e.liabilityId # NULL
          /\ FindFirst(liabilities, e.liabilityId, m.organizationId) = {}
       THEN Kept(Response(404, "NOT_FOUND", {}))
  ELSE IF UniqueViolation(balances, e.accountId, e.liabilityId, date)
       THEN Kept(Response(500, "P2002", {}))
  ELSE LET row == BalanceRow(nextBalanceId, e.accountId, e.liabilityId,
                             e.amount, date) IN
       [resp |-> Response(201, "", {row}),
        balances |-> balances \cup {row},
        nextId |-> nextBalanceId + 1]

\* The upsert as a plain insert, the unique indexes of Balance absent.
UpsertInsertsAlways(table, nextId, e, date) ==
  [table |-> table \cup {BalanceRow(nextId, e.accountId, e.liabilityId,
                                    e.amount, date)},
   nextId |-> nextId + 1]

\* prisma.balance.upsert({where: accountId_date | liabilityId_date, update:
\* {amount}, create: {...}}).  where and create carry the same values for
\* the one compound unique key and neither create nor update nests a write
\* or a read: the client (the one that ships @prisma/client/runtime/library)
\* hands PostgreSQL a single INSERT ... ON CONFLICT DO UPDATE, which Balance_
\* accountId_date_key / Balance_liabilityId_date_key settle atomically.
Upsert(table, nextId, e, date) ==
  IF UniqueViolation(table, e.accountId, e.liabilityId, date)
  THEN LET old == CHOOSE b \in table :
                    /\ b.date = date
                    /\ IF e.accountId # NULL THEN b.accountId = e.accountId
                       ELSE b.liabilityId = e.liabilityId IN
       [table |-> (table \ {old}) \cup {[old EXCEPT !.amount = e.amount]},
        nextId |-> nextId]
  ELSE [table |-> table \cup {BalanceRow(nextId, e.accountId, e.liabilityId,
                                         e.amount, date)},
        nextId |-> nextId + 1]

\* Promise.all(validated.balances.map(balance => prisma.balance.upsert(...)))
RECURSIVE UpsertAll(_, _, _, _)
UpsertAll(table, nextId, batch, date) ==
  IF batch = <<>> THEN [table |-> table, nextId |-> nextId]
  ELSE LET one == Upsert(table, nextId, Head(batch), date) IN
       UpsertAll(one.table, one.nextId, Tail(batch), date)

\* validated.balances.filter(b => b.accountId).map(b => b.accountId!)
AccountIdsOf(batch) ==
  SelectSeq(batch, LAMBDA e : e.accountId # NULL)
LiabilityIdsOf(batch) ==
  SelectSeq(batch, LAMBDA e : e.liabilityId # NULL)

\* The findMany without its organizationId condition.
FindManyAnyOrganization(table, idEntries, field, organizationId) ==
  {r \in table :
     /\ \E i \in 1..Len(idEntries) : idEntries[i][field] = r.id
     /\ r.deletedAt = NULL}

\* findMany({where: {id: {in: ids}, organizationId, deletedAt: null}})
FindMany(table, idEntries, field, organizationId) ==
  {r \in table :
     /\ \E i \in 1..Len(idEntries) : idEntries[i][field] = r.id
     /\ r.organizationId = organizationId
     /\ r.deletedAt = NULL}

BalanceBulkUpdateResult(m, userId, batch, date) ==
  IF m = NoMembership THEN Kept(NoOrganizationResponse)
  ELSE IF ~CanBulkUpdate(m.role)
       THEN Kept(Response(403, "FORBIDDEN", {}))
  ELSE IF \E i \in 1..Len(batch) : ~ExactlyOneRef(batch[i])
       THEN Kept(Response(400, "VALIDATION", {}))
  ELSE IF \/ Cardinality(FindMany(accounts, AccountIdsOf(batch), "accountId",
                                  m.organizationId))
               # Len(AccountIdsOf(batch))
          \/ Cardinality(FindMany(liabilities, LiabilityIdsOf(batch),
                                  "liabilityId", m.organizationId))
               # Len(LiabilityIdsOf(batch))
       THEN Kept(Response(404, "NOT_FOUND", {}))
  ELSE LET done == UpsertAll(balances, nextBalanceId, batch, date) IN
       [resp |-> Response(200, "", {}),
        balances |-> done.table,
        nextId |-> done.nextId]

\* findFirst({where: {id, OR: [{account: ...}, {liability: ...}]}})
FindBalance(id, organizationId) ==
  {b \in balances : /\ b.id = id
                    /\ \/ ViaAccount(b, organizationId)
                       \/ ViaLiability(b, organizationId)}

BalanceDeleteResult(m, userId, id) ==
  IF m = NoMembership THEN Kept(NoOrganizationResponse)
  ELSE IF ~CanDeleteBalance(m.role)
       THEN Kept(Response(403, "FORBIDDEN", {}))
  ELSE IF FindBalance(id, m.organizationId) = {}
       THEN Kept(Response(404, "NOT_FOUND", {}))
  ELSE [resp |-> Response(204, "", {}),
        balances |-> {b \in balances : b.id # id},
        nextId |-> nextBalanceId]

BalanceList(userId, date) ==
  /\ \E m \in getOrganizationMembership(userId) :
       BalanceListResult(m, date).status \in {200, 403}
  /\ UNCHANGED vars

BalanceCreate(userId, e, date) ==
  /\ nextBalanceId <= MaxBalances
  /\ \E m \in getOrganizationMembership(userId) :
       LET r == BalanceCreateResult(m, userId, e, date) IN
       /\ balances' = r.balances
       /\ nextBalanceId' = r.nextId
  /\ UNCHANGED <<accounts, liabilities, nextAccountId, nextLiabilityId, now,
                 organizations, members,
                 invVars>>

BalanceBulkUpdate(userId, batch, date) ==
  /\ \E m \in getOrganizationMembership(userId) :
       LET r == BalanceBulkUpdateResult(m, userId, batch, date) IN
       /\ r.nextId <= MaxBalances + 1
       /\ balances' = r.balances
       /\ nextBalanceId' = r.nextId
  /\ UNCHANGED <<accounts, liabilities, nextAccountId, nextLiabilityId, now,
                 organizations, members,
                 invVars>>

BalanceDelete(userId, id) ==
  /\ \E m \in getOrganizationMembership(userId) :
       balances' = BalanceDeleteResult(m, userId, id).balances
  /\ UNCHANGED <<accounts, liabilities, nextAccountId, nextLiabilityId,
                 nextBalanceId, now, organizations, members,
                 invVars>>

\* -------------------------------------------------- InvitationController
\* Every handler runs as a process: one step per awaited storage call whose
\* answer another request can change.  The User table is written by no
\* handler, OrganizationMember rows are only ever added and never changed,
\* and no handler soft-deletes an organization: what a handler has read of
\* them still stands at its next await, so these lookups are taken together
\* with the read that follows them.

Procs == {"p1", "p2"}

\* User table: id -> email (unique).  kara's address is carol's but for the
\* case of one letter.
EmailOf ==
  [alice |-> "alice@x.com", mike |-> "mike@x.com", vic |-> "vic@x.com",
   bob |-> "bob@x.com", dan |-> "dan@x.com", carol |-> "carol@x.com",
   kara |-> "Carol@x.com"]

\* prisma.user.findUnique({where: {email}})
UsersByEmail(email) == {u \in Users : EmailOf[u] = email}

\* createHash('sha256').update(token).digest('hex'): one-way, never the
\* plaintext itself.
Hash(token) == <<"sha256", token>>

\* expiresAt.setDate(expiresAt.getDate() + 7)
InvitationLifetime == 7

\* The frame of a request: where it stands and what it has read so far.
IdleProc ==
  [pc |-> "idle", userId |-> NoUser, organizationId |-> NoOrg,
   email |-> "", role |-> NoRole, id |-> NULL, token |-> NULL,
   sentAt |-> NULL, expiresAt |-> NULL, invitedBy |-> NoUser,
   table |-> "", patch |-> [name |-> "keep", isActive |-> "keep"],
   hardDelete |-> FALSE, batch |-> <<>>, date |-> NULL]

\* The handler goes on to its next awaited call: no response yet.
Continue == Response(0, "", {})

\* z.string().email()
ValidEmail(email) == email # "not-an-email"

\* The invite check with the MEMBER case left out.
CanInviteExceptViewer(role) == ~(role = "VIEWER")

\* Check permission: ADMIN or OWNER can invite / revoke
CanInvite(role) == ~(role = "VIEWER" \/ role = "MEMBER")
CanRevoke(role) == ~(role = "VIEWER" \/ role = "MEMBER")

\* findUnique({where: {organizationId_email: {organizationId, email}}})
InvitationsFor(organizationId, email) ==
  {i \in invitations : i.organizationId = organizationId /\ i.email = email}

\* findUnique({where: {organizationId_userId: {organizationId, userId}}})
MembersFor(organizationId, userId) ==
  {m \in members : m.organizationId = organizationId /\ m.userId = userId}

\* ------------------------------------------------------------------ send

\* From the membership lookup to the existingMember check:
\* if (inviteeUser) { existingMember = ...; if (existingMember) 400 }
SendStartResult(m, userId, email) ==
  IF m = NoMembership THEN NoOrganizationResponse
  ELSE IF ~CanInvite(m.role) THEN Response(403, "FORBIDDEN", {})
  ELSE IF ~ValidEmail(email) THEN Response(400, "VALIDATION", {})
  ELSE IF userId \in UsersByEmail(email)
       THEN Response(400, "SELF_INVITE", {})
  ELSE IF \E u \in UsersByEmail(email) :
            MembersFor(m.organizationId, u) # {}
       THEN Response(400, "ALREADY_MEMBER", {})
  ELSE Continue

\* The check with the comparison of expiresAt turned around.
SendCheckInvitationInverted(f) ==
  IF \E i \in InvitationsFor(f.organizationId, f.email) :
       i.acceptedAt = NULL /\ i.revokedAt = NULL /\ i.expiresAt < now
  THEN Response(400, "ACTIVE_INVITATION", {})
  ELSE Continue

\* existingInvitation && !acceptedAt && !revokedAt && expiresAt > new Date()
SendCheckInvitationResult(f) ==
  IF \E i \in InvitationsFor(f.organizationId, f.email) :
       i.acceptedAt = NULL /\ i.revokedAt = NULL /\ i.expiresAt > now
  THEN Response(400, "ACTIVE_INVITATION", {})
  ELSE Continue

\* The 201 with the stored token among its fields.
SentBodyWithToken(i) ==
  [id |-> i.id, email |-> i.email, role |-> i.role,
   expiresAt |-> i.expiresAt, sentAt |-> i.sentAt, token |-> i.token]

\* The body of the 201: id, email, role, expiresAt, sentAt.
SentBody(i) ==
  [id |-> i.id, email |-> i.email, role |-> i.role,
   expiresAt |-> i.expiresAt, sentAt |-> i.sentAt]

\* The write as a plain create, Invitation_organizationId_email_key absent.
SendCreatesAlways(f, emailOk) ==
  [resp |-> Response(201, "", {}),
   invitations |->
     invitations \cup {[id |-> nextInvitationId,
                        organizationId |-> f.organizationId,
                        email |-> f.email, role |-> f.role,
                        token |-> Hash(f.token), invitedBy |-> f.userId,
                        sentAt |-> now, expiresAt |-> f.expiresAt,
                        acceptedAt |-> NULL, revokedAt |-> NULL]},
   nextInvitationId |-> nextInvitationId + 1,
   outbox |-> outbox]

\* The upsert with revokedAt: null missing from its update payload.
SendUpsertKeepsRevoked(f, emailOk) ==
  LET old == InvitationsFor(f.organizationId, f.email)
      row == IF old = {}
             THEN [id |-> nextInvitationId,
                   organizationId |-> f.organizationId, email |-> f.email,
                   role |-> f.role, token |-> Hash(f.token),
                   invitedBy |-> f.userId, sentAt |-> now,
                   expiresAt |-> f.expiresAt, acceptedAt |-> NULL,
                   revokedAt |-> NULL]
             ELSE [(CHOOSE i \in old : TRUE) EXCEPT
                     !.role = f.role, !.token = Hash(f.token),
                     !.invitedBy = f.userId, !.sentAt = f.sentAt,
                     !.expiresAt = f.expiresAt, !.acceptedAt = NULL]
  IN [resp |-> Response(201, "", {SentBody(row)}),
      invitations |-> (invitations \ old) \cup {row},
      nextInvitationId |-> IF old = {} THEN nextInvitationId + 1
                           ELSE nextInvitationId,
      outbox |-> IF emailOk
                 THEN outbox \cup {[to |-> f.email,
                                    organizationId |-> f.organizationId,
                                    inviter |-> f.userId, token |-> f.token,
                                    role |-> f.role]}
                 ELSE outbox]

\* The send with a failure of the mailer escalated: the write undone and
\* the error handed on.
SendUpsertEmailRollsBack(f, emailOk) ==
  LET old == InvitationsFor(f.organizationId, f.email)
      row == IF old = {}
             THEN [id |-> nextInvitationId,
                   organizationId |-> f.organizationId, email |-> f.email,
                   role |-> f.role, token |-> Hash(f.token),
                   invitedBy |-> f.userId, sentAt |-> now,
                   expiresAt |-> f.expiresAt, acceptedAt |-> NULL,
                   revokedAt |-> NULL]
             ELSE [(CHOOSE i \in old : TRUE) EXCEPT
                     !.role = f.role, !.token = Hash(f.token),
                     !.invitedBy = f.userId, !.sentAt = f.sentAt,
                     !.expiresAt = f.expiresAt, !.acceptedAt = NULL,
                     !.revokedAt = NULL]
  IN IF emailOk
     THEN [resp |-> Response(201, "", {SentBody(row)}),
           invitations |-> (invitations \ old) \cup {row},
           nextInvitationId |-> IF old = {} THEN nextInvitationId + 1
                                ELSE nextInvitationId,
           outbox |-> outbox \cup {[to |-> f.email,
                                    organizationId |-> f.organizationId,
                                    inviter |-> f.userId, token |-> f.token,
                                    role |-> f.role]}]
     ELSE [resp |-> Response(500, "INTERNAL", {}),
           invitations |-> invitations,
           nextInvitationId |-> nextInvitationId, outbox |-> outbox]

\* prisma.invitation.upsert on (organizationId, email), then
\* sendInvitationEmail, whose failure is caught and logged.  A created row
\* takes sentAt from the column default (the time of the insert); an updated
\* row takes the new Date() of the request.
SendUpsertResult(f, emailOk) ==
  LET old == InvitationsFor(f.organizationId, f.email)
      row == IF old = {}
             THEN [id |-> nextInvitationId,
                   organizationId |-> f.organizationId, email |-> f.email,
                   role |-> f.role, token |-> Hash(f.token),
                   invitedBy |-> f.userId, sentAt |-> now,
                   expiresAt |-> f.expiresAt, acceptedAt |-> NULL,
                   revokedAt |-> NULL]
             ELSE [(CHOOSE i \in old : TRUE) EXCEPT
                     !.role = f.role, !.token = Hash(f.token),
                     !.invitedBy = f.userId, !.sentAt = f.sentAt,
                     !.expiresAt = f.expiresAt, !.acceptedAt = NULL,
                     !.revokedAt = NULL]
  IN [resp |-> Response(201, "", {SentBody(row)}),
      invitations |-> (invitations \ old) \cup {row},
      nextInvitationId |-> IF old = {} THEN nextInvitationId + 1
                           ELSE nextInvitationId,
      outbox |-> IF emailOk
                 THEN outbox \cup {[to |-> f.email,
                                    organizationId |-> f.organizationId,
                                    inviter |-> f.userId, token |-> f.token,
                                    role |-> f.role]}
                 ELSE outbox]

\* Tokens drawn so far plus those the sends in flight will draw.
TokensClaimed ==
  (nextToken - 1)
  + Cardinality({p \in Procs : proc[p].pc = "send.invitation"})

\* The (organizationId, email) pairs that hold a row or are about to.
PairsClaimed ==
  {<<i.organizationId, i.email>> : i \in invitations}
  \cup {<<proc[p].organizationId, proc[p].email>> :
          p \in {q \in Procs : proc[q].pc \in {"send.invitation",
                                                 "send.upsert"}}}

SendStart(p, userId, email, role) ==
  /\ proc[p] = IdleProc
  /\ TokensClaimed < MaxTokens
  /\ \E m \in getOrganizationMembership(userId) :
       /\ Cardinality(PairsClaimed \cup {<<m.organizationId, email>>})
            <= MaxInvitations
       /\ proc' = [proc EXCEPT ![p] =
         IF SendStartResult(m, userId, email) = Continue
         THEN [IdleProc EXCEPT
                 !.pc = "send.invitation", !.userId = userId,
                 !.organizationId = m.organizationId,
                 !.email = email, !.role = role]
         ELSE IdleProc]
  /\ UNCHANGED <<organizations, members, accounts, liabilities, balances,
                 nextAccountId, nextLiabilityId, nextBalanceId, now,
                 invitations, nextInvitationId, nextMemberId, nextToken,
                 outbox>>

\* On the way to the upsert: generateInvitationToken(), expiresAt = now + 7
\* days, and the sentAt of the update payload.
SendCheckInvitation(p) ==
  /\ proc[p].pc = "send.invitation"
  /\ IF SendCheckInvitationResult(proc[p]) = Continue
     THEN /\ proc' = [proc EXCEPT ![p] =
                [@ EXCEPT !.pc = "send.upsert", !.token = nextToken,
                          !.sentAt = now,
                          !.expiresAt = now + InvitationLifetime]]
          /\ nextToken' = nextToken + 1
     ELSE /\ proc' = [proc EXCEPT ![p] = IdleProc]
          /\ nextToken' = nextToken
  /\ UNCHANGED <<organizations, members, accounts, liabilities, balances,
                 nextAccountId, nextLiabilityId, nextBalanceId, now,
                 invitations, nextInvitationId, nextMemberId, outbox>>

SendUpsert(p, emailOk) ==
  /\ proc[p].pc = "send.upsert"
  /\ LET r == SendUpsertResult(proc[p], emailOk) IN
       /\ invitations' = r.invitations
       /\ nextInvitationId' = r.nextInvitationId
       /\ outbox' = r.outbox
  /\ proc' = [proc EXCEPT ![p] = IdleProc]
  /\ UNCHANGED <<organizations, members, accounts, liabilities, balances,
                 nextAccountId, nextLiabilityId, nextBalanceId, now,
                 nextMemberId, nextToken>>

\* ------------------------------------------------------------------ list

\* select: {id, email, role, sentAt, expiresAt, acceptedAt, revokedAt}
Selected(i) ==
  [id |-> i.id, email |-> i.email, role |-> i.role, sentAt |-> i.sentAt,
   expiresAt |-> i.expiresAt, acceptedAt |-> i.acceptedAt,
   revokedAt |-> i.revokedAt]

\* findMany({where: {organizationId}, select}) and the four filters over
\* its rows.
InvitationListResult(organizationId) ==
  LET rows == {Selected(i) : i \in {j \in invitations :
                                      j.organizationId = organizationId}} IN
  [pending |-> {i \in rows : i.acceptedAt = NULL /\ i.revokedAt = NULL
                             /\ i.expiresAt > now},
   expired |-> {i \in rows : i.acceptedAt = NULL /\ i.revokedAt = NULL
                             /\ i.expiresAt <= now},
   accepted |-> {i \in rows : i.acceptedAt # NULL},
   revoked |-> {i \in rows : i.revokedAt # NULL},
   total |-> Cardinality(rows)]

InvitationList(p, userId) ==
  /\ proc[p] = IdleProc
  /\ \E m \in getOrganizationMembership(userId) :
       IF m = NoMembership THEN NoOrganizationResponse.status = 403
       ELSE InvitationListResult(m.organizationId).total >= 0
  /\ UNCHANGED vars

\* ---------------------------------------------------------------- accept

\* findUnique({where: {token: hashedToken}, include: {organization}})
InvitationsByToken(token) == {i \in invitations : i.token = Hash(token)}

\* The comparison of the two addresses with their case folded.
SameEmailIgnoringCase(userEmail, invitedEmail) ==
  \/ userEmail = invitedEmail
  \/ {userEmail, invitedEmail} = {"carol@x.com", "Carol@x.com"}

\* user.email !== invitation.email: strict equality of the two strings.
SameEmail(userEmail, invitedEmail) == userEmail = invitedEmail

\* The checks of accept with the revokedAt test left out.
AcceptStartSkipsRevoked(userId, token) ==
  IF InvitationsByToken(token) = {}
  THEN Response(404, "INVALID_TOKEN", {})
  ELSE LET invitation == CHOOSE i \in InvitationsByToken(token) : TRUE IN
       IF invitation.acceptedAt # NULL
       THEN Response(400, "ALREADY_ACCEPTED", {})
       ELSE IF invitation.expiresAt < now
       THEN Response(400, "EXPIRED", {})
       ELSE IF organizations[invitation.organizationId].deletedAt # NULL
       THEN Response(400, "ORGANIZATION_DELETED", {})
       ELSE IF ~SameEmail(EmailOf[userId], invitation.email)
       THEN Response(403, "EMAIL_MISMATCH", {})
       ELSE Continue

\* From the token lookup to the email comparison.
AcceptStartResult(userId, token) ==
  IF InvitationsByToken(token) = {}
  THEN Response(404, "INVALID_TOKEN", {})
  ELSE LET invitation == CHOOSE i \in InvitationsByToken(token) : TRUE IN
       IF invitation.acceptedAt # NULL
       THEN Response(400, "ALREADY_ACCEPTED", {})
       ELSE IF invitation.revokedAt # NULL
       THEN Response(400, "REVOKED", {})
       ELSE IF invitation.expiresAt < now
       THEN Response(400, "EXPIRED", {})
       ELSE IF organizations[invitation.organizationId].deletedAt # NULL
       THEN Response(400, "ORGANIZATION_DELETED", {})
       ELSE IF ~SameEmail(EmailOf[userId], invitation.email)
       THEN Response(403, "EMAIL_MISMATCH", {})
       ELSE Continue

\* prisma.invitation.update({where: {id}, data: ...}) on the row as it is now
StampInvitation(id, field, time) ==
  {IF i.id = id THEN [i EXCEPT ![field] = time] ELSE i : i \in invitations}

\* if (existingMember): mark the invitation accepted anyway, answer 200
\* 'You are already a member of this organization' with the member's role.
AcceptUpdateResult(f) ==
  [resp |-> Response(200, "ALREADY_MEMBER", {f.role}),
   members |-> members,
   invitations |-> StampInvitation(f.id, "acceptedAt", now),
   nextMemberId |-> nextMemberId]

\* The row organizationMember.create inserts.
AcceptedMember(f) ==
  [id |-> nextMemberId, organizationId |-> f.organizationId,
   userId |-> f.userId, role |-> f.role, invitedBy |-> f.invitedBy,
   invitedAt |-> f.sentAt, acceptedAt |-> now]

\* The create without the unique index on (organizationId, userId).
AcceptTransactionNoIndex(f, storeOk) ==
  IF ~storeOk
  THEN [resp |-> Response(500, "STORE_FAILURE", {}), members |-> members,
        invitations |-> invitations, nextMemberId |-> nextMemberId]
  ELSE [resp |-> Response(200, "", {AcceptedMember(f)}),
        members |-> members \cup {AcceptedMember(f)},
        invitations |-> StampInvitation(f.id, "acceptedAt", now),
        nextMemberId |-> nextMemberId + 1]

\* prisma.$transaction([organizationMember.create, invitation.update]): both
\* writes or neither.  OrganizationMember_organizationId_userId_key refuses a
\* second row of the pair (P2002); a failure of the store aborts likewise,
\* and either error goes to next(error).
AcceptTransactionResult(f, storeOk) ==
  IF ~storeOk
  THEN [resp |-> Response(500, "STORE_FAILURE", {}), members |-> members,
        invitations |-> invitations, nextMemberId |-> nextMemberId]
  ELSE IF MembersFor(f.organizationId, f.userId) # {}
  THEN [resp |-> Response(500, "P2002", {}), members |-> members,
        invitations |-> invitations, nextMemberId |-> nextMemberId]
  ELSE [resp |-> Response(200, "", {AcceptedMember(f)}),
        members |-> members \cup {AcceptedMember(f)},
        invitations |-> StampInvitation(f.id, "acceptedAt", now),
        nextMemberId |-> nextMemberId + 1]

AcceptStart(p, userId, token) ==
  /\ proc[p] = IdleProc
  /\ proc' = [proc EXCEPT ![p] =
       IF AcceptStartResult(userId, token) = Continue
       THEN LET invitation == CHOOSE i \in InvitationsByToken(token) : TRUE
            IN [IdleProc EXCEPT
                  !.pc = "accept.member", !.userId = userId,
                  !.token = token, !.id = invitation.id,
                  !.organizationId = invitation.organizationId,
                  !.role = invitation.role,
                  !.invitedBy = invitation.invitedBy,
                  !.sentAt = invitation.sentAt]
       ELSE IdleProc]
  /\ UNCHANGED <<organizations, members, accounts, liabilities, balances,
                 nextAccountId, nextLiabilityId, nextBalanceId, now,
                 invitations, nextInvitationId, nextMemberId, nextToken,
                 outbox>>

\* existingMember = organizationMember.findUnique(organizationId_userId)
AcceptCheckMember(p) ==
  /\ proc[p].pc = "accept.member"
  /\ LET existing == MembersFor(proc[p].organizationId, proc[p].userId) IN
       proc' = [proc EXCEPT ![p] =
         IF existing # {}
         THEN [@ EXCEPT !.pc = "accept.update",
                        !.role = (CHOOSE m \in existing : TRUE).role]
         ELSE [@ EXCEPT !.pc = "accept.transaction"]]
  /\ UNCHANGED <<organizations, members, accounts, liabilities, balances,
                 nextAccountId, nextLiabilityId, nextBalanceId, now,
                 invitations, nextInvitationId, nextMemberId, nextToken,
                 outbox>>

AcceptUpdate(p) ==
  /\ proc[p].pc = "accept.update"
  /\ invitations' = AcceptUpdateResult(proc[p]).invitations
  /\ proc' = [proc EXCEPT ![p] = IdleProc]
  /\ UNCHANGED <<organizations, members, accounts, liabilities, balances,
                 nextAccountId, nextLiabilityId, nextBalanceId, now,
                 nextInvitationId, nextMemberId, nextToken, outbox>>

AcceptTransaction(p, storeOk) ==
  /\ proc[p].pc = "accept.transaction"
  /\ LET r == AcceptTransactionResult(proc[p], storeOk) IN
       /\ members' = r.members
       /\ invitations' = r.invitations
       /\ nextMemberId' = r.nextMemberId
  /\ proc' = [proc EXCEPT ![p] = IdleProc]
  /\ UNCHANGED <<organizations, accounts, liabilities, balances,
                 nextAccountId, nextLiabilityId, nextBalanceId, now,
                 nextInvitationId, nextToken, outbox>>

\* ---------------------------------------------------------------- revoke

\* The checks of revoke with the revokedAt test left out.
RevokeStartSkipsRevoked(m, id) ==
  IF m = NoMembership THEN NoOrganizationResponse
  ELSE IF ~CanRevoke(m.role) THEN Response(403, "FORBIDDEN", {})
  ELSE IF {i \in invitations : i.id = id} = {}
  THEN Response(404, "NOT_FOUND", {})
  ELSE LET invitation == CHOOSE i \in invitations : i.id = id IN
       IF invitation.organizationId # m.organizationId
       THEN Response(403, "OTHER_ORGANIZATION", {})
       ELSE IF invitation.acceptedAt # NULL
       THEN Response(400, "ALREADY_ACCEPTED", {})
       ELSE Continue

\* The revoke with a test of expiresAt among its checks.
RevokeStartRejectsExpired(m, id) ==
  IF m = NoMembership THEN NoOrganizationResponse
  ELSE IF ~CanRevoke(m.role) THEN Response(403, "FORBIDDEN", {})
  ELSE IF {i \in invitations : i.id = id} = {}
  THEN Response(404, "NOT_FOUND", {})
  ELSE LET invitation == CHOOSE i \in invitations : i.id = id IN
       IF invitation.organizationId # m.organizationId
       THEN Response(403, "OTHER_ORGANIZATION", {})
       ELSE IF invitation.acceptedAt # NULL
       THEN Response(400, "ALREADY_ACCEPTED", {})
       ELSE IF invitation.revokedAt # NULL
       THEN Response(400, "ALREADY_REVOKED", {})
       ELSE IF invitation.expiresAt <= now
       THEN Response(400, "EXPIRED", {})
       ELSE Continue

\* The revoke with the row looked up before the role is checked.
RevokeStartLookupFirst(m, id) ==
  IF m = NoMembership THEN NoOrganizationResponse
  ELSE IF {i \in invitations : i.id = id} = {}
  THEN Response(404, "NOT_FOUND", {})
  ELSE LET invitation == CHOOSE i \in invitations : i.id = id IN
       IF invitation.organizationId # m.organizationId
       THEN Response(403, "OTHER_ORGANIZATION", {})
       ELSE IF ~CanRevoke(m.role) THEN Response(403, "FORBIDDEN", {})
       ELSE IF invitation.acceptedAt # NULL
       THEN Response(400, "ALREADY_ACCEPTED", {})
       ELSE IF invitation.revokedAt # NULL
       THEN Response(400, "ALREADY_REVOKED", {})
       ELSE Continue

\* From the membership lookup to the checks on the row that
\* findUnique({where: {id}}) returns.
RevokeStartResult(m, id) ==
  IF m = NoMembership THEN NoOrganizationResponse
  ELSE IF ~CanRevoke(m.role) THEN Response(403, "FORBIDDEN", {})
  ELSE IF {i \in invitations : i.id = id} = {}
  THEN Response(404, "NOT_FOUND", {})
  ELSE LET invitation == CHOOSE i \in invitations : i.id = id IN
       IF invitation.organizationId # m.organizationId
       THEN Response(403, "OTHER_ORGANIZATION", {})
       ELSE IF invitation.acceptedAt # NULL
       THEN Response(400, "ALREADY_ACCEPTED", {})
       ELSE IF invitation.revokedAt # NULL
       THEN Response(400, "ALREADY_REVOKED", {})
       ELSE Continue

\* update({where: {id}, data: {revokedAt: new Date()}})
RevokeUpdateResult(f) ==
  [resp |-> Response(200, "", {}),
   invitations |-> StampInvitation(f.id, "revokedAt", now)]

RevokeStart(p, userId, id) ==
  /\ proc[p] = IdleProc
  /\ \E m \in getOrganizationMembership(userId) :
       proc' = [proc EXCEPT ![p] =
         IF RevokeStartResult(m, id) = Continue
         THEN [IdleProc EXCEPT !.pc = "revoke.update", !.userId = userId,
                               !.organizationId = m.organizationId,
                               !.id = id]
         ELSE IdleProc]
  /\ UNCHANGED <<organizations, members, accounts, liabilities, balances,
                 nextAccountId, nextLiabilityId, nextBalanceId, now,
                 invitations, nextInvitationId, nextMemberId, nextToken,
                 outbox>>

RevokeUpdate(p) ==
  /\ proc[p].pc = "revoke.update"
  /\ invitations' = RevokeUpdateResult(proc[p]).invitations
  /\ proc' = [proc EXCEPT ![p] = IdleProc]
  /\ UNCHANGED <<organizations, members, accounts, liabilities, balances,
                 nextAccountId, nextLiabilityId, nextBalanceId, now,
                 nextInvitationId, nextMemberId, nextToken, outbox>>

\* ------------------------------------------- update and delete in steps
\* AccountController / LiabilityController update and delete as the requests
\* they are: the findFirst that verifies the row, then the write by id alone.

Tables == {"accounts", "liabilities"}

TableOf(name) == IF name = "accounts" THEN accounts ELSE liabilities

\* From the membership lookup to the existing check of update.
UpdateStartResult(m, table, id, patch) ==
  IF m = NoMembership THEN NoOrganizationResponse
  ELSE IF ~CanEdit(m.role) THEN Response(403, "FORBIDDEN", {})
  ELSE IF ~ValidName(patch.name) THEN Response(400, "VALIDATION", {})
  ELSE IF FindFirst(table, id, m.organizationId) = {}
  THEN Response(404, "NOT_FOUND", {})
  ELSE Continue

\* From the membership lookup to the existing check of delete.
DeleteStartResult(m, table, id) ==
  IF m = NoMembership THEN NoOrganizationResponse
  ELSE IF ~CanDelete(m.role) THEN Response(403, "FORBIDDEN", {})
  ELSE IF FindFirst(table, id, m.organizationId) = {}
  THEN Response(404, "NOT_FOUND", {})
  ELSE Continue

\* prisma.<table>.update({where: {id}, data: validated}) on the row as it is
\* now; a row that is gone makes the call throw (P2025), which goes to
\* next(error).
UpdateWriteResult(table, f) ==
  IF {r \in table : r.id = f.id} = {}
  THEN Unchanged(table, Response(500, "P2025", {}))
  ELSE LET old == CHOOSE r \in table : r.id = f.id IN
       [resp |-> Response(200, "", {ApplyPatch(old, f.patch)}),
        table |-> (table \ {old}) \cup {ApplyPatch(old, f.patch)}]

\* prisma.<table>.delete({where: {id}}) or the update that stamps the row.
DeleteWriteResult(table, f) ==
  IF {r \in table : r.id = f.id} = {}
  THEN Unchanged(table, Response(500, "P2025", {}))
  ELSE LET old == CHOOSE r \in table : r.id = f.id IN
       [resp |-> Response(204, "", {}),
        table |-> IF f.hardDelete THEN table \ {old}
                  ELSE (table \ {old}) \cup {SoftDeleted(old, f.userId)}]

UpdateStart(p, name, userId, id, patch) ==
  /\ proc[p] = IdleProc
  /\ \E m \in getOrganizationMembership(userId) :
       proc' = [proc EXCEPT ![p] =
         IF UpdateStartResult(m, TableOf(name), id, patch) = Continue
         THEN [IdleProc EXCEPT !.pc = "update.write", !.userId = userId,
                               !.organizationId = m.organizationId,
                               !.table = name, !.id = id, !.patch = patch]
         ELSE IdleProc]
  /\ UNCHANGED <<organizations, members, accounts, liabilities, balances,
                 nextAccountId, nextLiabilityId, nextBalanceId, now,
                 invitations, nextInvitationId, nextMemberId, nextToken,
                 outbox>>

DeleteStart(p, name, userId, id, hardDelete) ==
  /\ proc[p] = IdleProc
  /\ \E m \in getOrganizationMembership(userId) :
       proc' = [proc EXCEPT ![p] =
         IF DeleteStartResult(m, TableOf(name), id) = Continue
         THEN [IdleProc EXCEPT !.pc = "delete.write", !.userId = userId,
                               !.organizationId = m.organizationId,
                               !.table = name, !.id = id,
                               !.hardDelete = hardDelete]
         ELSE IdleProc]
  /\ UNCHANGED <<organizations, members, accounts, liabilities, balances,
                 nextAccountId, nextLiabilityId, nextBalanceId, now,
                 invitations, nextInvitationId, nextMemberId, nextToken,
                 outbox>>

\* The write of the request in flight, on the table its frame names.
WriteStep(p, result) ==
  /\ accounts' = IF proc[p].table = "accounts" THEN result.table
                 ELSE accounts
  /\ liabilities' = IF proc[p].table = "liabilities" THEN result.table
                    ELSE liabilities
  /\ balances' = {b \in balances :
                    \/ \E a \in accounts' : a.id = b.accountId
                    \/ \E l \in liabilities' : l.id = b.liabilityId}
  /\ proc' = [proc EXCEPT ![p] = IdleProc]
  /\ UNCHANGED <<organizations, members, nextAccountId, nextLiabilityId,
                 nextBalanceId, now, invitations, nextInvitationId,
                 nextMemberId, nextToken, outbox>>

UpdateWrite(p) ==
  /\ proc[p].pc = "update.write"
  /\ WriteStep(p, UpdateWriteResult(TableOf(proc[p].table), proc[p]))

DeleteWrite(p) ==
  /\ proc[p].pc = "delete.write"
  /\ WriteStep(p, DeleteWriteResult(TableOf(proc[p].table), proc[p]))

\* ----------------------------------------------------------------- clock

\* Time passes: one invitation lifetime at a step, so that an invitation is
\* seen before, at and after its expiresAt.
Tick ==
  /\ now + InvitationLifetime <= MaxNow
  /\ now' = now + InvitationLifetime
  /\ UNCHANGED <<organizations, members, accounts, liabilities, balances,
                 nextAccountId, nextLiabilityId, nextBalanceId, invVars>>

\* ------------------------------------------------------------------ Init

InitOrganizations ==
  [o \in Orgs |-> [deletedAt |-> IF o = "orgD" THEN 0 ELSE NULL]]

Member(id, organizationId, userId, role) ==
  [id |-> id, organizationId |-> organizationId, userId |-> userId,
   role |-> role, invitedBy |-> NoUser, invitedAt |-> 0, acceptedAt |-> 0]

InitMembers ==
  {Member(1, "orgA", "alice", "OWNER"),
   Member(2, "orgA", "mike", "MEMBER"),
   Member(3, "orgA", "vic", "VIEWER"),
   Member(4, "orgB", "bob", "ADMIN"),
   Member(5, "orgD", "dan", "OWNER")}

\* The invitation dan sent for orgD before the organization was soft-deleted.
InitInvitations ==
  {[id |-> 1, organizationId |-> "orgD", email |-> "carol@x.com",
    role |-> "MEMBER", token |-> Hash(0), invitedBy |-> "dan",
    sentAt |-> 0, expiresAt |-> InvitationLifetime, acceptedAt |-> NULL,
    revokedAt |-> NULL]}

Init ==
  /\ organizations = InitOrganizations
  /\ members = InitMembers
  /\ accounts = {}
  /\ liabilities = {}
  /\ balances = {}
  /\ nextAccountId = 1
  /\ nextLiabilityId = 1
  /\ nextBalanceId = 1
  /\ now = 0
  /\ invitations = InitInvitations
  /\ nextInvitationId = 2
  /\ nextMemberId = 6
  /\ nextToken = 1
  /\ outbox = {}
  /\ proc = [p \in Procs |-> IdleProc]

AccountIds == 1..MaxInstruments
LiabilityIds == 1..MaxInstruments
BalanceIds == 1..MaxBalances
Names == {"", "checking"}

\* The bodies of POST /accounts and /liabilities: a name, and the
\* organizationId and createdBy a client may add to its payload (NoOrg,
\* NoUser: the key is absent).
Bodies ==
  [name : Names, organizationId : {NoOrg, "orgB"}, createdBy : {NoUser, "bob"}]

\* The instrument references of a balance body: one account, one liability,
\* and the two shapes the schema refuses (neither, both).
Refs ==
  {[accountId |-> a, liabilityId |-> NULL] : a \in AccountIds}
  \cup {[accountId |-> NULL, liabilityId |-> l] : l \in LiabilityIds}
  \cup {[accountId |-> NULL, liabilityId |-> NULL],
        [accountId |-> 1, liabilityId |-> 1]}

Entry(ref, amount) ==
  [accountId |-> ref.accountId, liabilityId |-> ref.liabilityId,
   amount |-> amount]

\* The bodies of POST /balances.
Entries == {Entry(r, x) : r \in Refs, x \in Amounts}

\* The bodies of POST /balances/bulk: up to MaxBatch entries, one amount.
Batches ==
  UNION {{[i \in 1..n |-> Entry(rs[i], x)] : rs \in [1..n -> Refs],
                                            x \in Amounts} : n \in 1..MaxBatch}

\* The bodies of POST /invitations, the tokens of POST
\* /invitations/accept/:token (0: the one dan's invitation carries) and the
\* ids of DELETE /invitations/:id.
InviteEmails == {"carol@x.com", "bob@x.com", "not-an-email"}
InviteRoles == {"MEMBER", "OWNER"}
Tokens == 0..MaxTokens
InvitationIds == 1..MaxInvitations

Next ==
  \/ \E u \in Users, inc \in BOOLEAN : AccountList(u, inc)
  \/ \E u \in Users, id \in AccountIds : AccountGet(u, id)
  \/ \E u \in Users, n \in Bodies : AccountCreate(u, n)
  \/ \E u \in Users, id \in AccountIds, p \in Patches : AccountUpdate(u, id, p)
  \/ \E u \in Users, id \in AccountIds, h \in BOOLEAN : AccountDelete(u, id, h)
  \/ \E u \in Users, inc \in BOOLEAN : LiabilityList(u, inc)
  \/ \E u \in Users, id \in LiabilityIds : LiabilityGet(u, id)
  \/ \E u \in Users, n \in Bodies : LiabilityCreate(u, n)
  \/ \E u \in Users, id \in LiabilityIds, p \in Patches :
       LiabilityUpdate(u, id, p)
  \/ \E u \in Users, id \in LiabilityIds, h \in BOOLEAN :
       LiabilityDelete(u, id, h)
  \/ \E u \in Users, d \in Dates \cup {NULL} : BalanceList(u, d)
  \/ \E u \in Users, e \in Entries, d \in Dates : BalanceCreate(u, e, d)
  \/ \E u \in Users, b \in Batches, d \in Dates : BalanceBulkUpdate(u, b, d)
  \/ \E u \in Users, id \in BalanceIds : BalanceDelete(u, id)

Spec == Init /\ [][Next]_vars

NextInv ==
  \/ \E p \in Procs, u \in Users, e \in InviteEmails, r \in InviteRoles :
       SendStart(p, u, e, r)
  \/ \E p \in Procs : SendCheckInvitation(p)
  \/ \E p \in Procs, ok \in BOOLEAN : SendUpsert(p, ok)
  \/ \E p \in Procs, u \in Users : InvitationList(p, u)
  \/ \E p \in Procs, u \in Users, t \in Tokens : AcceptStart(p, u, t)
  \/ \E p \in Procs : AcceptCheckMember(p)
  \/ \E p \in Procs : AcceptUpdate(p)
  \/ \E p \in Procs, ok \in BOOLEAN : AcceptTransaction(p, ok)
  \/ \E p \in Procs, u \in Users, id \in InvitationIds : RevokeStart(p, u, id)
  \/ \E p \in Procs : RevokeUpdate(p)
  \/ Tick

SpecInv == Init /\ [][NextInv]_vars

\* Updates and deletes of Accounts and Liabilities as concurrent requests,
\* over instruments created one request at a time.
NextSteps ==
  \/ \E u \in Users, n \in Bodies : AccountCreate(u, n)
  \/ \E u \in Users, n \in Bodies : LiabilityCreate(u, n)
  \/ \E p \in Procs, t \in Tables, u \in Users, id \in AccountIds,
        x \in Patches : UpdateStart(p, t, u, id, x)
  \/ \E p \in Procs : UpdateWrite(p)
  \/ \E p \in Procs, t \in Tables, u \in Users, id \in AccountIds,
        h \in BOOLEAN : DeleteStart(p, t, u, id, h)
  \/ \E p \in Procs : DeleteWrite(p)

SpecSteps == Init /\ [][NextSteps]_vars

\* ------------------------------------------------- bulkUpdate in steps
\* BalanceController.bulkUpdate as the request it is: the checks up to the
\* two findMany, then one upsert per entry, issued together by Promise.all
\* and settled by the database in any order, those of another request in
\* between.

BulkStart(p, userId, batch, date) ==
  /\ proc[p] = IdleProc
  /\ \E m \in getOrganizationMembership(userId) :
       proc' = [proc EXCEPT ![p] =
         IF BalanceBulkUpdateResult(m, userId, batch, date).resp.status = 200
         THEN [IdleProc EXCEPT !.pc = "bulk.upsert", !.userId = userId,
                               !.organizationId = m.organizationId,
                               !.batch = batch, !.date = date]
         ELSE IdleProc]
  /\ UNCHANGED <<organizations, members, accounts, liabilities, balances,
                 nextAccountId, nextLiabilityId, nextBalanceId, now,
                 invitations, nextInvitationId, nextMemberId, nextToken,
                 outbox>>

\* One of the upserts still open commits; after the last of them the 200.
BulkUpsert(p) ==
  /\ proc[p].pc = "bulk.upsert"
  /\ \E k \in 1..Len(proc[p].batch) :
       LET r == Upsert(balances, nextBalanceId, proc[p].batch[k],
                       proc[p].date)
           rest == [j \in 1..(Len(proc[p].batch) - 1) |->
                      IF j < k THEN proc[p].batch[j]
                      ELSE proc[p].batch[j + 1]]
       IN /\ r.nextId <= MaxBalances + 1
          /\ balances' = r.table
          /\ nextBalanceId' = r.nextId
          /\ proc' = [proc EXCEPT ![p] =
                IF rest = <<>> THEN IdleProc ELSE [@ EXCEPT !.batch = rest]]
  /\ UNCHANGED <<organizations, members, accounts, liabilities,
                 nextAccountId, nextLiabilityId, now, invitations,
                 nextInvitationId, nextMemberId, nextToken, outbox>>

NextBulk ==
  \/ \E u \in Users, n \in Bodies : AccountCreate(u, n)
  \/ \E u \in Users, n \in Bodies : LiabilityCreate(u, n)
  \/ \E p \in Procs, u \in Users, b \in Batches, d \in Dates :
       BulkStart(p, u, b, d)
  \/ \E p \in Procs : BulkUpsert(p)

SpecBulk == Init /\ [][NextBulk]_vars

\* The tenant-scoped handlers side by side: instruments are created and
\* deleted while one request at a time sends and revokes invitations.
NextTenant ==
  \/ \E u \in Users, n \in Bodies : AccountCreate(u, n)
  \/ \E u \in Users, n \in Bodies : LiabilityCreate(u, n)
  \/ \E u \in Users, id \in AccountIds, h \in BOOLEAN :
       AccountDelete(u, id, h)
  \/ \E u \in Users, e \in InviteEmails, r \in InviteRoles :
       SendStart("p1", u, e, r)
  \/ SendCheckInvitation("p1")
  \/ \E ok \in BOOLEAN : SendUpsert("p1", ok)
  \/ \E u \in Users, id \in InvitationIds : RevokeStart("p1", u, id)
  \/ RevokeUpdate("p1")

SpecTenant == Init /\ [][NextTenant]_vars

\* ------------------------------------------------- properties of Spec

\* The requests a caller can make once its membership is resolved.
Callers ==
  {c \in [userId : Users, m : members] :
     c.m \in ActiveMemberships(c.userId)}

\* The organization that owns a Balance row: that of its instrument.
OwnerOfBalance(b) ==
  IF b.accountId # NULL THEN AccountOf(b).organizationId
  ELSE LiabilityOf(b).organizationId

\* C1: whatever has been created, updated and deleted so far, a list or a
\* fetch-by-id of Accounts, Liabilities or Balances answered to a member of
\* organization A holds no record owned by another organization.
C1_TenantIsolatedReads ==
  \A c \in Callers :
    /\ \A inc \in BOOLEAN :
         /\ \A r \in ListResult(c.m, accounts, inc).data :
              r.organizationId = c.m.organizationId
         /\ \A r \in ListResult(c.m, liabilities, inc).data :
              r.organizationId = c.m.organizationId
    /\ \A id \in AccountIds :
         \A r \in GetResult(c.m, accounts, id).data :
           r.organizationId = c.m.organizationId
    /\ \A id \in LiabilityIds :
         \A r \in GetResult(c.m, liabilities, id).data :
           r.organizationId = c.m.organizationId
    /\ \A d \in Dates :
         \A b \in BalanceListResult(c.m, d).data :
           OwnerOfBalance(b) = c.m.organizationId
    /\ \A d \in BalanceListResult(c.m, NULL).data :
         \E b \in balances :
           b.date = d /\ OwnerOfBalance(b) = c.m.organizationId

\* C1 witness: both organizations own an Account and a Balance, and the list
\* answered to a member of orgA is not empty.
C1_Witness ==
  /\ \E a \in accounts : a.organizationId = "orgA" /\ a.deletedAt = NULL
                         /\ a.isActive
  /\ \E a \in accounts : a.organizationId = "orgB" /\ a.deletedAt = NULL
                         /\ a.isActive
  /\ \E b \in balances : OwnerOfBalance(b) = "orgA"
  /\ \E b \in balances : OwnerOfBalance(b) = "orgB"
  /\ \E c \in Callers :
       /\ c.m.organizationId = "orgA"
       /\ ListResult(c.m, accounts, FALSE).data # {}
       /\ BalanceListResult(c.m, 1).data # {}

\* The rows of a table that exist and belong to another organization than
\* the caller's.
Foreign(table, c) == {r \in table : r.organizationId # c.m.organizationId}
ForeignBalances(c) ==
  {b \in balances : OwnerOfBalance(b) # c.m.organizationId}

NotFound(response) == response.status = 404 /\ response.error = "NOT_FOUND"
Forbidden(response) == response.status = 403 /\ response.error = "FORBIDDEN"

\* C2: a fetch-by-id, update or delete (soft or hard) that the caller's role
\* permits, aimed at an Account, Liability or Balance that exists in another
\* organization, ends NotFound and leaves the tables as they were.
C2_ForeignIdIsNotFound ==
  \A c \in Callers :
    /\ \A r \in Foreign(accounts, c) :
         /\ NotFound(GetResult(c.m, accounts, r.id))
         /\ CanEdit(c.m.role) =>
              \A p \in {q \in Patches : ValidName(q.name)} :
                /\ NotFound(UpdateResult(c.m, c.userId, accounts, r.id, p).resp)
                /\ UpdateResult(c.m, c.userId, accounts, r.id, p).table
                     = accounts
         /\ CanDelete(c.m.role) =>
              \A h \in BOOLEAN :
                /\ NotFound(DeleteResult(c.m, c.userId, accounts, r.id, h).resp)
                /\ DeleteResult(c.m, c.userId, accounts, r.id, h).table
                     = accounts
    /\ \A r \in Foreign(liabilities, c) :
         /\ NotFound(GetResult(c.m, liabilities, r.id))
         /\ CanEdit(c.m.role) =>
              \A p \in {q \in Patches : ValidName(q.name)} :
                /\ NotFound(UpdateResult(c.m, c.userId, liabilities, r.id,
                                         p).resp)
                /\ UpdateResult(c.m, c.userId, liabilities, r.id, p).table
                     = liabilities
         /\ CanDelete(c.m.role) =>
              \A h \in BOOLEAN :
                /\ NotFound(DeleteResult(c.m, c.userId, liabilities, r.id,
                                         h).resp)
                /\ DeleteResult(c.m, c.userId, liabilities, r.id, h).table
                     = liabilities
    /\ \A b \in ForeignBalances(c) :
         CanDeleteBalance(c.m.role) =>
           /\ NotFound(BalanceDeleteResult(c.m, c.userId, b.id).resp)
           /\ BalanceDeleteResult(c.m, c.userId, b.id).balances = balances

\* C2 witness: orgB owns a live Account, a live Liability and a Balance, and
\* the owner of orgA, whose role permits every action, aims at them.
C2_Witness ==
  \E c \in Callers :
    /\ c.m.organizationId = "orgA" /\ c.m.role = "OWNER"
    /\ \E r \in Foreign(accounts, c) : r.deletedAt = NULL
    /\ \E r \in Foreign(liabilities, c) : r.deletedAt = NULL
    /\ \E b \in ForeignBalances(c) :
         NotFound(BalanceDeleteResult(c.m, c.userId, b.id).resp)

\* The policy table: create and edit from MEMBER up, delete from ADMIN up.
PolicyAllows(role, action) ==
  IF action = "delete" THEN role \in {"OWNER", "ADMIN"}
  ELSE role \in {"OWNER", "ADMIN", "MEMBER"}

\* C6: for every role and each of create, edit and delete on Accounts and
\* Liabilities, the request gets past the permission check exactly when the
\* policy table allows it; a denied request ends in Forbidden and changes
\* nothing.
C6_InstrumentPolicy ==
  \A c \in Callers :
    \A table \in {accounts, liabilities} :
      /\ \A n \in Bodies :
           LET r == CreateResult(c.m, c.userId, table, 1, n) IN
           /\ Forbidden(r.resp) <=> ~PolicyAllows(c.m.role, "create")
           /\ Forbidden(r.resp) => r.table = table
      /\ \A id \in AccountIds, p \in Patches :
           LET r == UpdateResult(c.m, c.userId, table, id, p) IN
           /\ Forbidden(r.resp) <=> ~PolicyAllows(c.m.role, "edit")
           /\ Forbidden(r.resp) => r.table = table
      /\ \A id \in AccountIds, h \in BOOLEAN :
           LET r == DeleteResult(c.m, c.userId, table, id, h) IN
           /\ Forbidden(r.resp) <=> ~PolicyAllows(c.m.role, "delete")
           /\ Forbidden(r.resp) => r.table = table

\* C6 witness: orgA holds a live Account; on it the MEMBER's delete is
\* Forbidden, the MEMBER's edit and the OWNER's delete go through, and the
\* VIEWER's create is Forbidden.
C6_Witness ==
  \E a \in accounts :
    /\ a.organizationId = "orgA" /\ a.deletedAt = NULL
    /\ \E c \in Callers :
         /\ c.m.role = "MEMBER" /\ c.m.organizationId = "orgA"
         /\ Forbidden(DeleteResult(c.m, c.userId, accounts, a.id, FALSE).resp)
         /\ UpdateResult(c.m, c.userId, accounts, a.id,
                         [name |-> "keep", isActive |-> "false"]).resp.status
              = 200
    /\ \E c \in Callers :
         /\ c.m.role = "OWNER" /\ c.m.organizationId = "orgA"
         /\ DeleteResult(c.m, c.userId, accounts, a.id, TRUE).resp.status
              = 204
    /\ \E c \in Callers :
         /\ c.m.role = "VIEWER"
         /\ Forbidden(CreateResult(c.m, c.userId, accounts, nextAccountId,
                                   [name |-> "checking",
                                    organizationId |-> NoOrg,
                                    createdBy |-> NoUser]).resp)

\* The Balance rows of the caller's own organization.
OwnBalances(c) == {b \in balances : OwnerOfBalance(b) = c.m.organizationId}

\* C7: for every role and every Balance action the request gets past the
\* permission check exactly as the policy table says: create and bulk upsert
\* from MEMBER up, delete from ADMIN up, so that a MEMBER's delete of a
\* Balance ends in Forbidden and the row stays.
C7_BalancePolicy ==
  \A c \in Callers :
    /\ \A e \in Entries, d \in Dates :
         Forbidden(BalanceCreateResult(c.m, c.userId, e, d).resp)
           <=> ~PolicyAllows(c.m.role, "create")
    /\ \A b \in Batches, d \in Dates :
         Forbidden(BalanceBulkUpdateResult(c.m, c.userId, b, d).resp)
           <=> ~PolicyAllows(c.m.role, "edit")
    /\ \A b \in OwnBalances(c) :
         LET r == BalanceDeleteResult(c.m, c.userId, b.id) IN
         /\ Forbidden(r.resp) <=> ~PolicyAllows(c.m.role, "delete")
         /\ Forbidden(r.resp) => r.balances = balances

\* ---------------------------------------------- properties of SpecInv

\* A membership that accept created carries its inviter.
CreatedByAccept(m) == m.invitedBy # NoUser

\* C3: the membership an accept creates and the acceptedAt stamp of its
\* invitation exist together or not at all: no invitation has acceptedAt set
\* while its accepting user has no membership in its organization, and no
\* membership created by accept stands while the invitation's acceptedAt is
\* unset.
C3_MembershipAndStampTogether ==
  /\ \A i \in invitations :
       i.acceptedAt # NULL =>
         \E m \in members : /\ m.organizationId = i.organizationId
                            /\ EmailOf[m.userId] = i.email
  /\ \A m \in members :
       CreatedByAccept(m) =>
         \E i \in invitations : /\ i.organizationId = m.organizationId
                                /\ i.email = EmailOf[m.userId]
                                /\ i.acceptedAt # NULL

Conflict(response, reason) ==
  response.status = 400 /\ response.error = reason

\* C4: accept with a token whose invitation is already accepted is rejected
\* as already accepted, and whatever accepts have run there is at most one
\* OrganizationMember row per (organizationId, userId).
C4_AcceptedOnce ==
  /\ \A u \in Users, t \in Tokens :
       (\E i \in InvitationsByToken(t) : i.acceptedAt # NULL)
         => Conflict(AcceptStartResult(u, t), "ALREADY_ACCEPTED")
  /\ \A m1 \in members, m2 \in members :
       (m1.organizationId = m2.organizationId /\ m1.userId = m2.userId)
         => m1 = m2

\* C4 witness: an accept has created a membership, its invitation is stamped,
\* and a further accept with the same token is turned away.
C4_Witness ==
  \E i \in invitations, m \in members :
    /\ i.acceptedAt # NULL
    /\ CreatedByAccept(m)
    /\ m.organizationId = i.organizationId /\ EmailOf[m.userId] = i.email
    /\ \E t \in Tokens :
         /\ i.token = Hash(t)
         /\ Conflict(AcceptStartResult(m.userId, t), "ALREADY_ACCEPTED")

\* C5: of two accepts of one token by one user that run concurrently, the
\* one that comes second ends through the idempotent branch: with the store
\* up, no accept that has reached its write ends in a fault.
C5_ConcurrentAcceptIsIdempotent ==
  \A p \in Procs :
    proc[p].pc = "accept.transaction" =>
      AcceptTransactionResult(proc[p], TRUE).resp.status = 200

\* The user holds OWNER or ADMIN in the organization.
IsAdminOf(userId, organizationId) ==
  \E m \in MembersFor(organizationId, userId) : m.role \in {"OWNER", "ADMIN"}

\* C8: send and revoke are for OWNER and ADMIN only: a MEMBER's or VIEWER's
\* request ends in Forbidden, and every send or revoke on its way to a write,
\* every Invitation row and every email dispatched comes from an OWNER or
\* ADMIN of the organization.
C8_InviteAndRevokeAdminOnly ==
  /\ \A u \in Users :
       \A m \in ActiveMemberships(u) :
         /\ \A e \in InviteEmails :
              Forbidden(SendStartResult(m, u, e))
                <=> m.role \in {"MEMBER", "VIEWER"}
         /\ \A id \in InvitationIds :
              Forbidden(RevokeStartResult(m, id))
                <=> m.role \in {"MEMBER", "VIEWER"}
  /\ \A p \in Procs :
       proc[p].pc \in {"send.invitation", "send.upsert", "revoke.update"}
         => IsAdminOf(proc[p].userId, proc[p].organizationId)
  /\ \A i \in invitations : IsAdminOf(i.invitedBy, i.organizationId)
  /\ \A mail \in outbox : IsAdminOf(mail.inviter, mail.organizationId)

\* C8 witness: an OWNER's send has written a row and dispatched its email, a
\* revoke is on its way to its write, and a MEMBER's send and revoke aimed at
\* the same invitation are Forbidden.
C8_Witness ==
  /\ \E i \in invitations, mail \in outbox :
       /\ i.organizationId = "orgA" /\ i.token = Hash(mail.token)
       /\ \E m \in ActiveMemberships("mike") :
            /\ m.role = "MEMBER"
            /\ Forbidden(SendStartResult(m, "mike", i.email))
            /\ Forbidden(RevokeStartResult(m, i.id))
  /\ \E p \in Procs : proc[p].pc = "revoke.update"

\* C9: an OWNER's or ADMIN's revoke with the id of an invitation of another
\* organization has the NotFound outcome of an id that does not exist.
C9_ForeignRevokeIsNotFound ==
  \A u \in Users :
    \A m \in ActiveMemberships(u) :
      CanRevoke(m.role) =>
        \A i \in invitations :
          i.organizationId # m.organizationId
            => NotFound(RevokeStartResult(m, i.id))

\* C10: accept with a token whose invitation is accepted, revoked, past its
\* expiry, or whose organization is soft-deleted is rejected with the reason
\* of the first of these that applies; a rejected accept has returned before
\* any write.  In particular an accept whose invitation stands revoked when
\* it is looked up is rejected as revoked.
C10_RejectedWithItsReason ==
  \A u \in Users, t \in Tokens :
    \A i \in InvitationsByToken(t) :
      LET r == AcceptStartResult(u, t) IN
      /\ i.acceptedAt # NULL => Conflict(r, "ALREADY_ACCEPTED")
      /\ (i.acceptedAt = NULL /\ i.revokedAt # NULL)
           => Conflict(r, "REVOKED")
      /\ (i.acceptedAt = NULL /\ i.revokedAt = NULL /\ i.expiresAt < now)
           => Conflict(r, "EXPIRED")
      /\ (/\ i.acceptedAt = NULL /\ i.revokedAt = NULL
          /\ ~(i.expiresAt < now)
          /\ organizations[i.organizationId].deletedAt # NULL)
           => Conflict(r, "ORGANIZATION_DELETED")

\* C10 witness: a revoke has stamped an invitation of orgA and the accept of
\* its token by the invitee is rejected as revoked, while the accept of the
\* token of orgD's invitation, already past its expiry, is rejected as
\* expired.
C10_Witness ==
  /\ \E i \in invitations, t \in Tokens :
       /\ i.organizationId = "orgA" /\ i.revokedAt # NULL
       /\ i.token = Hash(t)
       /\ \E u \in UsersByEmail(i.email) :
            Conflict(AcceptStartResult(u, t), "REVOKED")
  /\ Conflict(AcceptStartResult("carol", 0), "EXPIRED")

\* An accept of the token, whoever makes it, is rejected as revoked.
RejectedAsRevoked(t) ==
  \A u \in Users : Conflict(AcceptStartResult(u, t), "REVOKED")

\* C10 as stated: the rejections above, and every accept attempted after a
\* successful revoke of the invitation is rejected as revoked: once the accept
\* of a token is met with 'revoked', it is met with 'revoked' ever after.
C10_RevokedEverAfter ==
  /\ []C10_RejectedWithItsReason
  /\ [][\A t \in Tokens : RejectedAsRevoked(t) => RejectedAsRevoked(t)']_vars

\* The accept went by every check up to the comparison of the addresses.
ReachesEmailCheck(i) ==
  /\ i.acceptedAt = NULL /\ i.revokedAt = NULL /\ ~(i.expiresAt < now)
  /\ organizations[i.organizationId].deletedAt = NULL

EmailMismatch(response) ==
  response.status = 403 /\ response.error = "EMAIL_MISMATCH"

\* The accepts that have passed their checks and not yet answered.
Accepting ==
  {p \in Procs : proc[p].pc \in {"accept.member", "accept.update",
                                 "accept.transaction"}}

\* C11 (rejection): an accept by a caller whose email is not exactly the
\* invitation's target email is rejected as an email mismatch before any
\* write: only a caller whose email is the row's email ever gets past the
\* checks, and every membership an accept created belongs to a user whose
\* email an invitation of the organization names.
C11_MismatchRejected ==
  /\ \A u \in Users, t \in Tokens :
       \A i \in InvitationsByToken(t) :
         (ReachesEmailCheck(i) /\ EmailOf[u] # i.email)
           => EmailMismatch(AcceptStartResult(u, t))
  /\ \A p \in Accepting :
       \E i \in invitations :
         i.id = proc[p].id /\ i.email = EmailOf[proc[p].userId]
  /\ \A m \in members :
       CreatedByAccept(m) =>
         \E i \in invitations : /\ i.organizationId = m.organizationId
                                /\ i.email = EmailOf[m.userId]

\* The write of an accept by p creates a membership.
AcceptCreates(p) ==
  /\ proc[p].pc = "accept.transaction" /\ proc'[p] = IdleProc
  /\ members' # members

\* C11: the rejection above, and the accept with the same token by the caller
\* whose email matches creates a membership with the invitation's role and
\* leaves the invitation ACCEPTED: when the accept's write is done, the row
\* is accepted and carries the role of the new membership.
C11_MatchingAcceptJoinsWithRole ==
  /\ []C11_MismatchRejected
  /\ [][\A p \in Procs :
          AcceptCreates(p) =>
            \E m \in members' \ members, i \in invitations' :
              /\ i.id = proc[p].id /\ i.acceptedAt # NULL
              /\ i.email = EmailOf[m.userId] /\ i.role = m.role]_vars

\* C12: whatever sends, accepts and revokes have run, every user has at most
\* one membership in an organization that is not soft-deleted, so that
\* resolving the user's membership yields one organization and no other.
C12_AtMostOneActiveMembership ==
  \A u \in Users :
    /\ Cardinality(ActiveMemberships(u)) <= 1
    /\ \A m1 \in getOrganizationMembership(u),
          m2 \in getOrganizationMembership(u) : m1 = m2

\* The lifecycle state of an Invitation row, derived at read time.
Pending(i) == i.acceptedAt = NULL /\ i.revokedAt = NULL /\ i.expiresAt > now
Expired(i) == i.acceptedAt = NULL /\ i.revokedAt = NULL /\ i.expiresAt < now
Accepted(i) == i.acceptedAt # NULL
Revoked(i) == i.acceptedAt = NULL /\ i.revokedAt # NULL

\* The send of p looks the row of its (organizationId, email) up in this step.
SendChecks(p) == proc[p].pc = "send.invitation" /\ proc'[p] # proc[p]

\* C13: a send whose lookup finds a PENDING invitation for its
\* (organizationId, email) is rejected with 'an active invitation already
\* exists': the request ends there, the rows (token hash, role, sentAt,
\* expiresAt of the existing one among them) stay as they are, no token is
\* drawn and no email is dispatched.
C13_ActiveInvitationRejected ==
  /\ [](\A i \in invitations :
          Pending(i) => Conflict(SendCheckInvitationResult(
                                   [organizationId |-> i.organizationId,
                                    email |-> i.email]),
                                 "ACTIVE_INVITATION"))
  /\ [][\A p \in Procs :
          (SendChecks(p) /\ \E i \in InvitationsFor(proc[p].organizationId,
                                                    proc[p].email) :
                              Pending(i))
            => /\ proc'[p] = IdleProc
               /\ invitations' = invitations
               /\ outbox' = outbox
               /\ nextToken' = nextToken]_vars

\* C13 witness: an OWNER's send has left a PENDING invitation of orgA whose
\* email went out, and a second send for the same address stands at its
\* lookup, which answers 'an active invitation already exists'.
C13_Witness ==
  \E p \in Procs, i \in invitations :
    /\ proc[p].pc = "send.invitation"
    /\ i \in InvitationsFor(proc[p].organizationId, proc[p].email)
    /\ i.organizationId = "orgA" /\ Pending(i)
    /\ \E mail \in outbox : Hash(mail.token) = i.token
    /\ Conflict(SendCheckInvitationResult(proc[p]), "ACTIVE_INVITATION")

\* Invitation_organizationId_email_key: no two rows of the table share
\* (organizationId, email).
OnePerPair(table) ==
  \A i1 \in table, i2 \in table :
    (i1.organizationId = i2.organizationId /\ i1.email = i2.email)
      => i1 = i2

C15_ReinviteReusesRow ==
  \A p \in Procs, emailOk \in BOOLEAN :
    proc[p].pc = "send.upsert" =>
      \A old \in InvitationsFor(proc[p].organizationId, proc[p].email) :
        (Expired(old) \/ Revoked(old)) =>
          LET r == SendUpsertResult(proc[p], emailOk) IN
          /\ r.resp.status = 201
          /\ \E i \in r.invitations :
               /\ i.id = old.id
               /\ i.organizationId = old.organizationId
               /\ i.email = old.email
               /\ i.role = proc[p].role
               /\ i.token = Hash(proc[p].token) /\ i.token # old.token
               /\ i.sentAt = proc[p].sentAt
               /\ i.expiresAt = proc[p].sentAt + InvitationLifetime
               /\ i.acceptedAt = NULL /\ i.revokedAt = NULL
               /\ proc[p].sentAt = now => Pending(i)
          /\ Cardinality(r.invitations) = Cardinality(invitations)

\* C15 witness: an invitation of orgA was revoked and has since passed its
\* expiry, and a new send for its address, past the check, stands at its
\* write at the present time.
C15_Witness ==
  \E p \in Procs :
    /\ proc[p].pc = "send.upsert" /\ proc[p].sentAt = now
    /\ \E old \in InvitationsFor(proc[p].organizationId, proc[p].email) :
         /\ old.organizationId = "orgA"
         /\ Revoked(old) /\ old.expiresAt < now

\* C16: ACCEPTED is terminal: in no step of a send, an accept or a revoke
\* does a row whose acceptedAt is set lose it.
C16_AcceptedIsTerminal ==
  [][\A i \in invitations :
       Accepted(i) => \E j \in invitations' : j.id = i.id /\ Accepted(j)]_vars

\* The send of p writes the row of i's (organizationId, email) in this step.
SendWrites(p, i) ==
  /\ proc[p].pc = "send.upsert" /\ proc'[p] = IdleProc
  /\ proc[p].organizationId = i.organizationId /\ proc[p].email = i.email

\* C17: a REVOKED invitation stays revoked under accept and revoke: an
\* accept or a revoke that finds it revoked is rejected as such, and the one
\* step that unsets a revokedAt is the write of a send for the row's
\* (organizationId, email), which leaves the row unaccepted and unrevoked
\* under that send's token.
C17_RevokedUntilReinvited ==
  /\ [](\A i \in invitations :
          Revoked(i) =>
            /\ \A u \in Users, t \in Tokens :
                 i.token = Hash(t)
                   => Conflict(AcceptStartResult(u, t), "REVOKED")
            /\ \A m \in members :
                 (m.organizationId = i.organizationId /\ CanRevoke(m.role))
                   => Conflict(RevokeStartResult(m, i.id), "ALREADY_REVOKED"))
  /\ [][\A i \in invitations :
          i.revokedAt # NULL =>
            \E j \in invitations' :
              /\ j.id = i.id
              /\ \/ j.revokedAt # NULL
                 \/ \E p \in Procs :
                      /\ SendWrites(p, i)
                      /\ j.token = Hash(proc[p].token)
                      /\ j.acceptedAt = NULL /\ j.revokedAt = NULL]_vars

\* C17 witness: an invitation of orgA stands revoked, the accept of its token
\* by the invitee and the revoke of its id by the OWNER are turned away, and
\* a send for its address stands at its write.
C17_Witness ==
  \E i \in invitations, t \in Tokens, p \in Procs :
    /\ i.organizationId = "orgA" /\ Revoked(i) /\ i.token = Hash(t)
    /\ \E u \in UsersByEmail(i.email) :
         Conflict(AcceptStartResult(u, t), "REVOKED")
    /\ \E m \in ActiveMemberships("alice") :
         Conflict(RevokeStartResult(m, i.id), "ALREADY_REVOKED")
    /\ proc[p].pc = "send.upsert"
    /\ proc[p].organizationId = i.organizationId /\ proc[p].email = i.email

\* C17 as stated: REVOKED is terminal: in no step of a send, an accept or a
\* revoke does a row whose revokedAt is set lose it.
C17_RevokedIsTerminal ==
  [][\A i \in invitations :
       i.revokedAt # NULL
         => \E j \in invitations' : j.id = i.id /\ j.revokedAt # NULL]_vars

\* ------------------------------------- properties of Spec: soft delete

\* The rows of the caller's organization that carry a deletedAt.
OwnDeleted(table, c) ==
  {r \in table : r.organizationId = c.m.organizationId /\ r.deletedAt # NULL}

\* The rows of the caller's organization that an update has deactivated.
OwnInactive(table, c) ==
  {r \in table : /\ r.organizationId = c.m.organizationId
                 /\ r.deletedAt = NULL /\ ~r.isActive}

OfSoftDeleted(table) ==
  {b \in table :
     \/ \E a \in accounts : a.id = b.accountId /\ a.deletedAt # NULL
     \/ \E l \in liabilities : l.id = b.liabilityId /\ l.deletedAt # NULL}

\* The step stamps a row of the table with its deletedAt.
SoftDeletes(table, tableNext) ==
  \E r \in table :
    /\ r.deletedAt = NULL
    /\ \E q \in tableNext : q.id = r.id /\ q.deletedAt # NULL

\* The instrument of the Balance row is still in storage after the step.
InstrumentStays(b) ==
  \/ \E a \in accounts' : a.id = b.accountId
  \/ \E l \in liabilities' : l.id = b.liabilityId

\* C19 (requests): whoever asks and whatever the body, a create, a bulk
\* upsert or a delete of balances leaves the Balance rows of soft-deleted
\* Accounts and Liabilities as they are.
C19_NoBalanceWriteOnSoftDeleted ==
  \A c \in Callers :
    /\ \A e \in Entries, d \in Dates :
         OfSoftDeleted(BalanceCreateResult(c.m, c.userId, e, d).balances)
           = OfSoftDeleted(balances)
    /\ \A batch \in Batches, d \in Dates :
         OfSoftDeleted(BalanceBulkUpdateResult(c.m, c.userId, batch,
                                               d).balances)
           = OfSoftDeleted(balances)
    /\ \A id \in BalanceIds :
         OfSoftDeleted(BalanceDeleteResult(c.m, c.userId, id).balances)
           = OfSoftDeleted(balances)

C20_DeletedIsInactiveAndAttributed ==
  \A r \in accounts \cup liabilities :
    r.deletedAt # NULL =>
      /\ r.isActive = FALSE
      /\ \E m \in MembersFor(r.organizationId, r.deletedBy) :
           CanDelete(m.role)

\* ------------------------------------------ properties of Spec: balances

\* C21: every Balance row in storage references an Account or a Liability
\* and not both; a create, or a bulk upsert with an entry, that names both or
\* neither writes nothing, and from a caller who may write balances it is
\* answered with the validation failure.
C21_ExactlyOneInstrument ==
  /\ \A b \in balances : (b.accountId = NULL) # (b.liabilityId = NULL)
  /\ \A c \in Callers, d \in Dates :
       /\ \A e \in Entries :
            (e.accountId = NULL) = (e.liabilityId = NULL) =>
              LET r == BalanceCreateResult(c.m, c.userId, e, d) IN
              /\ r.balances = balances
              /\ c.m.role # "VIEWER"
                   => r.resp.status = 400 /\ r.resp.error = "VALIDATION"
       /\ \A batch \in Batches :
            (\E k \in 1..Len(batch) :
               (batch[k].accountId = NULL) = (batch[k].liabilityId = NULL)) =>
              LET r == BalanceBulkUpdateResult(c.m, c.userId, batch, d) IN
              /\ r.balances = balances
              /\ c.m.role # "VIEWER"
                   => r.resp.status = 400 /\ r.resp.error = "VALIDATION"

\* C21 witness: orgA has an Account and a Liability of its own, one of them
\* with a Balance row, so that a body naming both names two instruments the
\* caller could write to one by one.
C21_Witness ==
  \E a \in accounts, l \in liabilities, b \in balances :
    /\ a.organizationId = "orgA" /\ l.organizationId = "orgA"
    /\ a.deletedAt = NULL /\ l.deletedAt = NULL
    /\ a.id = 1 /\ l.id = 1
    /\ b.accountId = a.id \/ b.liabilityId = l.id
    /\ \E c \in Callers :
         /\ c.userId = "alice"
         /\ BalanceCreateResult(c.m, c.userId,
                                [accountId |-> 1, liabilityId |-> 1,
                                 amount |-> 100], 1).resp.error = "VALIDATION"

\* C22: a create of a Balance for an (accountId, date) that already has a
\* row behaves as an upsert: it succeeds, and storage then holds for the pair
\* the one row, carrying the amount of this create.
C22_SecondCreateUpserts ==
  \A c \in Callers, e \in Entries, d \in Dates :
    (/\ c.m.role # "VIEWER"
     /\ e.accountId # NULL /\ e.liabilityId = NULL
     /\ \E a \in accounts : /\ a.id = e.accountId /\ a.deletedAt = NULL
                            /\ a.organizationId = c.m.organizationId
     /\ \E b \in balances : b.accountId = e.accountId /\ b.date = d)
      => LET r == BalanceCreateResult(c.m, c.userId, e, d) IN
         /\ r.resp.status \in {200, 201}
         /\ \E b \in r.balances :
              /\ b.amount = e.amount
              /\ {x \in r.balances : x.accountId = e.accountId /\ x.date = d}
                   = {b}

\* C24: a create of a Balance whose Account or Liability is of another
\* organization, soft-deleted or not in storage writes no row, and from a
\* caller who may write balances it is answered NotFound.
C24_CreateOnUnownedIsNotFound ==
  \A c \in Callers, e \in Entries, d \in Dates :
    (/\ (e.accountId = NULL) # (e.liabilityId = NULL)
     /\ ~\E a \in accounts : /\ a.id = e.accountId /\ a.deletedAt = NULL
                             /\ a.organizationId = c.m.organizationId
     /\ ~\E l \in liabilities : /\ l.id = e.liabilityId /\ l.deletedAt = NULL
                                /\ l.organizationId = c.m.organizationId)
      => LET r == BalanceCreateResult(c.m, c.userId, e, d) IN
         /\ r.balances = balances /\ r.nextId = nextBalanceId
         /\ c.m.role # "VIEWER" => NotFound(r.resp)

\* C24 witness: bob's organization has a live Account, orgA has a
\* soft-deleted one, and alice, who may write balances, names each of them
\* and an id that is not in storage.
C24_Witness ==
  \E x \in accounts, y \in accounts, c \in Callers :
    /\ x.organizationId = "orgB" /\ x.deletedAt = NULL
    /\ y.organizationId = "orgA" /\ y.deletedAt # NULL
    /\ c.userId = "alice"
    /\ \A id \in {x.id, y.id} :
         NotFound(BalanceCreateResult(c.m, c.userId,
                    [accountId |-> id, liabilityId |-> NULL, amount |-> 100],
                    1).resp)
    /\ NotFound(BalanceCreateResult(c.m, c.userId,
                  [accountId |-> NULL, liabilityId |-> 1, amount |-> 100],
                  1).resp)

\* C25: a bulk upsert that names an Account or Liability which is not in
\* storage, is soft-deleted or is of another organization writes nothing, no
\* row created and none changed, and from a caller who may write balances
\* the whole batch is answered NotFound.
C25_BulkAllOrNothing ==
  \A c \in Callers, batch \in Batches, d \in Dates :
    (/\ \A k \in 1..Len(batch) :
          (batch[k].accountId = NULL) # (batch[k].liabilityId = NULL)
     /\ \E k \in 1..Len(batch) :
          /\ ~\E a \in accounts :
                /\ a.id = batch[k].accountId /\ a.deletedAt = NULL
                /\ a.organizationId = c.m.organizationId
          /\ ~\E l \in liabilities :
                /\ l.id = batch[k].liabilityId /\ l.deletedAt = NULL
                /\ l.organizationId = c.m.organizationId)
      => LET r == BalanceBulkUpdateResult(c.m, c.userId, batch, d) IN
         /\ r.balances = balances /\ r.nextId = nextBalanceId
         /\ c.m.role # "VIEWER" => NotFound(r.resp)

\* C25 witness: orgA and orgB each have a live Account, the one of orgA with
\* a Balance row; alice's batch of the two, which would change that row, is
\* NotFound.
C25_Witness ==
  \E x \in accounts, y \in accounts, b \in balances, c \in Callers :
    /\ x.organizationId = "orgA" /\ x.deletedAt = NULL
    /\ y.organizationId = "orgB" /\ y.deletedAt = NULL
    /\ b.accountId = x.id /\ b.amount = 100
    /\ c.userId = "alice"
    /\ NotFound(BalanceBulkUpdateResult(c.m, c.userId,
         <<[accountId |-> x.id, liabilityId |-> NULL, amount |-> 200],
           [accountId |-> y.id, liabilityId |-> NULL, amount |-> 200]>>,
         b.date).resp)

\* ------------------------------------------- properties of Spec: create

\* C26: every Account and Liability in storage carries the organization and
\* the user of the request that created it: whatever organizationId and
\* createdBy the payload holds, the row a create writes has the caller's
\* resolved organizationId and the caller's id as createdBy.
C26_StampedFromCaller ==
  /\ \A c \in Callers, body \in Bodies :
       \A table \in {accounts, liabilities} :
         LET r == CreateResult(c.m, c.userId, table, nextAccountId, body) IN
         \A row \in r.table \ table :
           /\ row.organizationId = c.m.organizationId
           /\ row.createdBy = c.userId
  /\ \A row \in accounts \cup liabilities :
       \E m \in MembersFor(row.organizationId, row.createdBy) :
         m.role # "VIEWER"

\* C26 witness: alice has created an Account of orgA, and her create with a
\* payload that names orgB and bob succeeds with a row of orgA created by
\* alice.
C26_Witness ==
  /\ \E a \in accounts : a.organizationId = "orgA" /\ a.createdBy = "alice"
  /\ \E c \in Callers :
       /\ c.userId = "alice"
       /\ LET r == CreateResult(c.m, c.userId, accounts, nextAccountId,
                                [name |-> "checking",
                                 organizationId |-> "orgB",
                                 createdBy |-> "bob"]) IN
          /\ r.resp.status = 201
          /\ \E row \in r.table \ accounts :
               row.organizationId = "orgA" /\ row.createdBy = "alice"

\* ------------------------------------- properties of SpecInv: delivery

\* C29: a send whose sendInvitationEmail fails still answers 201 with the
\* invitation, and the row it created or updated is in storage afterwards,
\* carrying the hash of the token that was never delivered.
C29_EmailFailureKeepsInvitation ==
  \A p \in Procs :
    proc[p].pc = "send.upsert" =>
      LET r == SendUpsertResult(proc[p], FALSE) IN
        /\ r.resp.status = 201
        /\ r.outbox = outbox
        /\ \E i \in r.invitations :
             /\ i.organizationId = proc[p].organizationId
             /\ i.email = proc[p].email
             /\ i.token = Hash(proc[p].token)
             /\ i.role = proc[p].role
             /\ r.resp.data = {SentBody(i)}

\* An invitation is stored whose token no mail carries: its send went
\* through with the mailer failing, once creating the row and once updating
\* the row of an earlier send.
C29_Witness ==
  /\ \E i \in invitations :
       /\ i.organizationId = "orgA"
       /\ i.id = nextInvitationId - 1
       /\ \A mail \in outbox : Hash(mail.token) # i.token
  /\ \E p \in Procs :
       /\ proc[p].pc = "send.upsert"
       /\ InvitationsFor(proc[p].organizationId, proc[p].email) # {}
       /\ SendUpsertResult(proc[p], FALSE).resp.status = 201

\* ----------------------------------------- properties of SpecInv: list

\* C30: the list a member gets holds only invitations of the member's
\* organization, every one of them in exactly one of pending, expired,
\* accepted, revoked, and the four counts add up to the total.
C30_BucketsPartitionTheList ==
  \A u \in Users : \A m \in getOrganizationMembership(u) :
    m # NoMembership =>
      LET r == InvitationListResult(m.organizationId)
          buckets == <<r.pending, r.expired, r.accepted, r.revoked>>
      IN /\ \A k \in 1..4 : \A b \in buckets[k] :
              \E i \in invitations :
                i.id = b.id /\ i.organizationId = m.organizationId
         /\ \A i \in invitations :
              i.organizationId = m.organizationId =>
                Cardinality({k \in 1..4 :
                               \E b \in buckets[k] : b.id = i.id}) = 1
         /\ Cardinality(r.pending) + Cardinality(r.expired)
              + Cardinality(r.accepted) + Cardinality(r.revoked) = r.total

\* ---------------------------------------- properties of SpecTenant

C28_ForbiddenWhateverTheTarget ==
  \A c \in Callers :
    /\ c.m.role = "VIEWER" =>
         \A table \in {accounts, liabilities} :
           \A id \in 1..(MaxInstruments + 1), x \in Patches :
             UpdateResult(c.m, c.userId, table, id, x)
               = [resp |-> Response(403, "FORBIDDEN", {}), table |-> table]
    /\ c.m.role \in {"VIEWER", "MEMBER"} =>
         /\ \A table \in {accounts, liabilities} :
              \A id \in 1..(MaxInstruments + 1), h \in BOOLEAN :
                DeleteResult(c.m, c.userId, table, id, h)
                  = [resp |-> Response(403, "FORBIDDEN", {}),
                     table |-> table]
         /\ \A id \in 1..(MaxInvitations + 1) :
              RevokeStartResult(c.m, id) = Response(403, "FORBIDDEN", {})

\* C28 witness: of the Accounts one is orgA's and one orgB's, of the
\* invitations one is orgA's (pending) and one orgD's, and id 3 is neither
\* an Account nor an invitation; orgA has a VIEWER and a MEMBER.
C28_Witness ==
  /\ \E a \in accounts : a.organizationId = "orgA" /\ a.deletedAt = NULL
  /\ \E a \in accounts : a.organizationId = "orgB" /\ a.deletedAt = NULL
  /\ \A a \in accounts : a.id # 3
  /\ \E i \in invitations :
       /\ i.organizationId = "orgA"
       /\ i.acceptedAt = NULL /\ i.revokedAt = NULL /\ i.expiresAt > now
  /\ \E i \in invitations : i.organizationId = "orgD"
  /\ \A i \in invitations : i.id # 3
  /\ \E c \in Callers : c.m.organizationId = "orgA" /\ c.m.role = "VIEWER"
  /\ \E c \in Callers : c.m.organizationId = "orgA" /\ c.m.role = "MEMBER"

\* ------------------------------------------- properties of SpecBulk

\* C23: with bulk upserts of several requests in flight for the same
\* instrument and date, storage never holds two Balance rows for one
\* (instrument, date), and every upsert still open completes: it leaves
\* exactly one row for its (instrument, date), holding the amount it
\* submitted (the last to commit wins), and touches no other row.
C23_ConcurrentUpsertsOneRow ==
  /\ \A b1, b2 \in balances :
       (b1.accountId = b2.accountId /\ b1.liabilityId = b2.liabilityId
        /\ b1.date = b2.date) => b1 = b2
  /\ \A p \in Procs :
       proc[p].pc = "bulk.upsert" =>
         \A k \in 1..Len(proc[p].batch) :
           LET e == proc[p].batch[k]
               same(b) == /\ b.accountId = e.accountId
                          /\ b.liabilityId = e.liabilityId
                          /\ b.date = proc[p].date
               after == Upsert(balances, nextBalanceId, e, proc[p].date).table
           IN /\ Cardinality({b \in after : same(b)}) = 1
              /\ \A b \in after : same(b) => b.amount = e.amount
              /\ {b \in after : ~same(b)} = {b \in balances : ~same(b)}

\* C23 witness: two requests were in flight for Account 1 and the same date,
\* one with 100 and one with 200; the first has committed its row and the
\* other's upsert is still to come.
C23_Witness ==
  /\ \E b \in balances :
       b.accountId = 1 /\ b.date = 1 /\ b.amount = 100
  /\ proc["p1"] = IdleProc
  /\ proc["p2"].pc = "bulk.upsert"
  /\ proc["p2"].date = 1
  /\ \E k \in 1..Len(proc["p2"].batch) :
       proc["p2"].batch[k].accountId = 1 /\ proc["p2"].batch[k].amount = 200

\* ------------------------------------- properties of SpecInv: expiry

C32_TokenOnlyHashedAndMailed ==
  /\ \A i \in invitations : \E t \in Tokens : i.token = <<"sha256", t>>
  /\ \A p \in Procs :
       proc[p].pc = "send.upsert" =>
         \A ok \in BOOLEAN :
           LET r == SendUpsertResult(proc[p], ok) IN
             /\ \A b \in r.resp.data :
                  DOMAIN b = {"id", "email", "role", "expiresAt", "sentAt"}
             /\ \A i \in r.invitations \ invitations :
                  i.token = <<"sha256", proc[p].token>>
             /\ \A mail \in r.outbox \ outbox : mail.token = proc[p].token
             /\ ok => \E mail \in r.outbox : mail.token = proc[p].token
  /\ \A o \in Orgs :
       LET r == InvitationListResult(o) IN
         \A b \in r.pending \cup r.expired \cup r.accepted \cup r.revoked :
           "token" \notin DOMAIN b

\* C32 witness: an invitation of orgA is stored under the digest of a token
\* that a mail carries, it shows in the list of orgA, and another send
\* stands at its write.
C32_Witness ==
  /\ \E i \in invitations, mail \in outbox :
       /\ i.organizationId = "orgA"
       /\ i.token = Hash(mail.token)
       /\ \E b \in InvitationListResult("orgA").pending : b.id = i.id
  /\ \E p \in Procs : proc[p].pc = "send.upsert"

\* ------------------------------- properties of SpecInv: interleavings

\* C33: in every reachable state, those between the steps of an accept and
\* a revoke of the same invitation included, no invitation has both its
\* acceptedAt and its revokedAt set.
C33_NeverAcceptedAndRevoked ==
  \A i \in invitations : ~(i.acceptedAt # NULL /\ i.revokedAt # NULL)

\* C34: a membership is created, and an invitation marked accepted, only by
\* an accept whose token is at that moment the token of the invitation row:
\* after a send has overwritten the row with a new token, the accept that
\* carries the earlier token does neither.
C34_StaleTokenCreatesNothing ==
  [][\A p \in Procs :
       (/\ proc[p].pc \in {"accept.update", "accept.transaction"}
        /\ proc'[p] = IdleProc
        /\ \/ members' # members
           \/ \E i \in invitations, j \in invitations' :
                /\ i.id = proc[p].id /\ j.id = i.id
                /\ i.acceptedAt = NULL /\ j.acceptedAt # NULL)
       => \E i \in invitations :
            i.id = proc[p].id /\ i.token = Hash(proc[p].token)]_vars

\* C35: every membership the invitation flow has created carries a role no
\* higher than the one its inviter holds in that organization (OWNER above
\* ADMIN above MEMBER above VIEWER): an ADMIN's invitation yields no OWNER.
C35_NoRoleAboveTheInviter ==
  LET rank == [OWNER |-> 4, ADMIN |-> 3, MEMBER |-> 2, VIEWER |-> 1] IN
  \A m \in members \ InitMembers :
    \E x \in members :
      /\ x.userId = m.invitedBy
      /\ x.organizationId = m.organizationId
      /\ rank[m.role] <= rank[x.role]

\* C36: at every instant, now = expiresAt included, an unaccepted, unrevoked
\* invitation that the list shows as expired is refused as expired by an
\* accept of its token, and a send for its address does not take it for an
\* active invitation.
C36_ExpiryTestsAgree ==
  \A i \in invitations :
    (/\ i.acceptedAt = NULL /\ i.revokedAt = NULL
     /\ \E b \in InvitationListResult(i.organizationId).expired :
          b.id = i.id)
    => /\ \A u \in Users, t \in Tokens :
            i.token = Hash(t) =>
              AcceptStartResult(u, t) = Response(400, "EXPIRED", {})
       /\ SendCheckInvitationResult(
            [organizationId |-> i.organizationId, email |-> i.email])
            = Continue

\* ------------------------------------- properties of SpecInv: revoke

\* C37: a revoke by an OWNER or ADMIN of the invitation's organization gets
\* past its checks exactly when it finds the row unaccepted and unrevoked,
\* whether or not expiresAt has passed, and a revokedAt is stamped only by
\* the write of such a revoke: an EXPIRED invitation is revoked like a
\* PENDING one.
C37_RevokeIgnoresExpiry ==
  /\ [](\A i \in invitations : \A m \in members :
          (m.organizationId = i.organizationId
           /\ m.role \in {"OWNER", "ADMIN"})
          => (RevokeStartResult(m, i.id) = Continue
                <=> (i.acceptedAt = NULL /\ i.revokedAt = NULL)))
  /\ [][\A i \in invitations, j \in invitations' :
          (j.id = i.id /\ i.revokedAt = NULL /\ j.revokedAt # NULL)
          => \E p \in Procs :
               /\ proc[p].pc = "revoke.update" /\ proc[p].id = i.id
               /\ proc'[p] = IdleProc]_vars

\* C37 witness: an invitation of orgA is past its expiresAt, unaccepted and
\* unrevoked; the OWNER's revoke of it passes its checks, and one such revoke
\* stands at its write.
C37_Witness ==
  \E i \in invitations, p \in Procs :
    /\ i.organizationId = "orgA"
    /\ i.acceptedAt = NULL /\ i.revokedAt = NULL /\ i.expiresAt <= now
    /\ \E m \in ActiveMemberships("alice") :
         RevokeStartResult(m, i.id) = Continue
    /\ proc[p].pc = "revoke.update" /\ proc[p].id = i.id

\* C37 as stated: whenever a revokedAt is stamped the invitation was PENDING
\* just before: unaccepted and not past its expiresAt.
C37_RevokedOnlyFromPending ==
  [][\A i \in invitations, j \in invitations' :
       (j.id = i.id /\ i.revokedAt = NULL /\ j.revokedAt # NULL)
       => (i.acceptedAt = NULL /\ i.expiresAt > now)]_vars

\* --------------------------------- properties of SpecSteps: soft delete

\* C38: once an Account or Liability has its deletedAt set, an update or a
\* delete (soft or hard) of its id by an OWNER of its organization is
\* answered NotFound, and no step changes the row or removes it.
C38_SoftDeleteIsIrreversible ==
  [][/\ \A r \in accounts : r.deletedAt # NULL => r \in accounts'
     /\ \A r \in liabilities : r.deletedAt # NULL => r \in liabilities'
     /\ \A table \in {accounts, liabilities} : \A r \in table :
          r.deletedAt # NULL =>
            \A m \in members :
              (m.organizationId = r.organizationId /\ m.role = "OWNER") =>
                /\ DeleteStartResult(m, table, r.id)
                     = Response(404, "NOT_FOUND", {})
                /\ \A x \in Patches :
                     x.name # "" =>
                       UpdateStartResult(m, table, r.id, x)
                         = Response(404, "NOT_FOUND", {})]_vars

\* ------------------------------------------ properties of Spec: bulk

\* C39: a bulk upsert by a caller who may write balances, whose entries each
\* name exactly one instrument and all name live instruments of the
\* caller's organization, is accepted (200), the same instrument named by
\* more than one entry included.
C39_OwnedBatchIsAccepted ==
  \A c \in Callers : \A batch \in Batches, d \in Dates :
    (/\ c.m.role # "VIEWER"
     /\ \A k \in 1..Len(batch) :
          LET e == batch[k] IN
            \/ /\ e.accountId # NULL /\ e.liabilityId = NULL
               /\ \E r \in accounts :
                    /\ r.id = e.accountId /\ r.deletedAt = NULL
                    /\ r.organizationId = c.m.organizationId
            \/ /\ e.accountId = NULL /\ e.liabilityId # NULL
               /\ \E r \in liabilities :
                    /\ r.id = e.liabilityId /\ r.deletedAt = NULL
                    /\ r.organizationId = c.m.organizationId)
    => BalanceBulkUpdateResult(c.m, c.userId, batch, d).resp.status = 200
====
